---- MODULE Spec2Model ----
(***************************************************************************)
(* The Euchre room server (WebSocketHibernationServer): the rules kernel,  *)
(* the per-room game state machine, the client command path and the        *)
(* auto-advance scheduler, for one room.                                   *)
(*                                                                         *)
(* A card is its index in createDeck(): suit * 6 + rank, with SUITS =      *)
(* clubs, diamonds, hearts, spades (0..3) and RANKS = 9, 10, J, Q, K, A    *)
(* (0..5).  A card id is unique within a deal, as is its face, so the      *)
(* index stands for both.  Player ids are 1..4.  null is NoCard, NoSuit,   *)
(* NoTeam, NoSeat, NoPlayer, NoGame or NoSummary, by type; NoRoom is what  *)
(* this.rooms holds under a name no room has.                              *)
(***************************************************************************)
EXTENDS Integers, Sequences, FiniteSets, TLC

\* ---------------------------------------------------------------- bounds
\* Number of shuffles startNewHand can draw from.
NumDeals == 1
\* A client or a bot picks its card among the first MaxChoice candidates.
MaxChoice == 2
\* handNumber at which no further hand is dealt.
MaxHandNumber == 10
\* Handler continuations (waiting for persistRooms) in flight at once.
MaxPending == 1
\* Number of orders shuffleFaces can put the unseen faces in.
NumShuffles == 4

\* ------------------------------------------------------------- constants
ROOM_SIZE == 4
TARGET_SCORE == 10
HAND_SIZE == 5
LAST_TRICK_INDEX == 4
MAX_AUTO_ITERATIONS == 64
RANK_J == 2
RANK_COUNT == 6
DECK_SIZE == 24

CLUBS == 0
DIAMONDS == 1
HEARTS == 2
SPADES == 3
SUITS == {CLUBS, DIAMONDS, HEARTS, SPADES}
Seats == 0 .. (ROOM_SIZE - 1)
Cards == 0 .. (DECK_SIZE - 1)

NoCard == 0 - 1
NoSuit == 0 - 1
NoTeam == 0 - 1
NoSeat == 0 - 1
NoPlayer == 0
NoGame == [phase |-> "none"]
NoSummary == [none |-> TRUE]
NoRoom == [status |-> "none"]
NoToken == ""
NoPassword == ""
NoClient == 0

\* ---------------------------------------------------------- rules kernel
suitOf(card) == card \div RANK_COUNT
rankOf(card) == card % RANK_COUNT

getTeamForSeat(seatIndex) == IF seatIndex % 2 = 0 THEN 0 ELSE 1

nextSeat(seatIndex) == (seatIndex + 1) % ROOM_SIZE

sameColorSuit(suit) ==
  IF suit = CLUBS THEN SPADES
  ELSE IF suit = SPADES THEN CLUBS
  ELSE IF suit = HEARTS THEN DIAMONDS
  ELSE HEARTS

isRightBower(card, trump) == rankOf(card) = RANK_J /\ suitOf(card) = trump

isLeftBower(card, trump) ==
  rankOf(card) = RANK_J /\ suitOf(card) = sameColorSuit(trump)

effectiveSuit(card, trump) ==
  IF isLeftBower(card, trump) THEN trump ELSE suitOf(card)

\* RANKS index: 9 -> 0, 10 -> 1, J -> 2, Q -> 3, K -> 4, A -> 5.
rankStrength(card, trump, leadSuit) ==
  IF trump = NoSuit \/ leadSuit = NoSuit THEN 0
  ELSE IF isRightBower(card, trump) THEN 100
  ELSE IF isLeftBower(card, trump) THEN 99
  ELSE IF effectiveSuit(card, trump) = trump THEN
    (IF rankOf(card) = 5 THEN 98
     ELSE IF rankOf(card) = 4 THEN 97
     ELSE IF rankOf(card) = 3 THEN 96
     ELSE IF rankOf(card) = 1 THEN 95
     ELSE 94)
  ELSE IF effectiveSuit(card, trump) = leadSuit THEN
    (IF rankOf(card) = 5 THEN 60
     ELSE IF rankOf(card) = 4 THEN 59
     ELSE IF rankOf(card) = 3 THEN 58
     ELSE IF rankOf(card) = 2 THEN 57
     ELSE IF rankOf(card) = 1 THEN 56
     ELSE 55)
  ELSE 0

\* ------------------------------------------------------ sequence helpers
\* Array.prototype.findIndex, 1-based, for the elements in the set
\* matching; 0 when there is none.
FindIndex(seq, matching) ==
  IF \E i \in 1 .. Len(seq) : seq[i] \in matching
  THEN CHOOSE i \in 1 .. Len(seq) :
         seq[i] \in matching /\ \A j \in 1 .. (i - 1) : seq[j] \notin matching
  ELSE 0

\* Array.prototype.splice(index, 1).
RemoveAt(seq, i) == SubSeq(seq, 1, i - 1) \o SubSeq(seq, i + 1, Len(seq))

\* Array.prototype.filter.
RECURSIVE Filter(_, _)
Filter(seq, keep) ==
  IF seq = <<>> THEN <<>>
  ELSE (IF Head(seq) \in keep THEN <<Head(seq)>> ELSE <<>>)
       \o Filter(Tail(seq), keep)

Range(seq) == {seq[i] : i \in 1 .. Len(seq)}

Prefix(seq, n) == SubSeq(seq, 1, IF Len(seq) < n THEN Len(seq) ELSE n)

\* The candidate an actor picks from a non-empty list: which of the first
\* MaxChoice it is varies with the trick and the seat on turn, so that
\* leads, follows and discards are not always the first card held.
Pick(seq, game) ==
  Prefix(seq, MaxChoice)[((game.trickIndex + game.turnSeat)
                            % Len(Prefix(seq, MaxChoice))) + 1]

\* ------------------------------------------------------- deck and deal
\* createDeck(): SUITS.flatMap(RANKS), i.e. the cards 0..23 in order.
createDeck == [i \in 1 .. DECK_SIZE |-> i - 1]

\* shuffleDeck is a Fisher-Yates shuffle over Math.random: any permutation
\* of the deck.  The k-th permutation drawn here sends position i to the
\* card at (m * i + 5 * k) mod 24, with m = 1 for odd k (long suits in each
\* hand) and m = 7 for even k (every suit in each hand).
shuffleDeck(deck, k) ==
  LET m == IF k % 2 = 1 THEN 1 ELSE 7
  IN [i \in 1 .. DECK_SIZE |-> deck[((m * (i - 1) + 5 * k) % DECK_SIZE) + 1]]

Deals == 1 .. NumDeals

\* ------------------------------------------------------------ room access
\* The index in room.players of the player in a seat (0: none).
getSeatPlayer(room, seatIndex) ==
  FindIndex(room.players,
            {room.players[i] : i \in {j \in 1 .. Len(room.players) :
                                       room.players[j].seatIndex = seatIndex}})

\* The index in room.players of the player with an id (0: none).
getPlayerById(room, playerId) ==
  FindIndex(room.players,
            {room.players[i] : i \in {j \in 1 .. Len(room.players) :
                                       room.players[j].id = playerId}})

hasGame(room) == room.game # NoGame

isSeatSittingOut(room, seatIndex) ==
  /\ hasGame(room)
  /\ room.game.sittingOutSeat # NoSeat
  /\ room.game.sittingOutSeat = seatIndex

isPlayerActiveForPlay(room, player) ==
  IF ~hasGame(room) \/ room.game.phase # "playing" THEN TRUE
  ELSE ~isSeatSittingOut(room, player.seatIndex)

\* nextActiveSeat that takes the next seat whether it sits out or not.
nextActiveSeat_NoSkip(room, fromSeat) == nextSeat(fromSeat)

nextActiveSeat(room, fromSeat) ==
  LET Probe(index) == (fromSeat + index + 1) % ROOM_SIZE
      free == {index \in 0 .. (ROOM_SIZE - 1) :
                 ~isSeatSittingOut(room, Probe(index))}
  IN IF free # {}
     THEN Probe(CHOOSE index \in free : \A other \in free : index <= other)
     ELSE nextSeat(fromSeat)

\* activeSeatCountForPlay that counts the sitting-out seat too.
activeSeatCountForPlay_Four(room) == ROOM_SIZE

activeSeatCountForPlay(room) ==
  IF ~hasGame(room) \/ room.game.sittingOutSeat = NoSeat
  THEN ROOM_SIZE ELSE ROOM_SIZE - 1

\* getLegalPlays without the follow-suit filter: the whole hand on turn.
getLegalPlays_AnyCard(room, playerId) ==
  IF ~hasGame(room) THEN <<>>
  ELSE
    LET pi == getPlayerById(room, playerId) IN
    IF pi = 0 THEN <<>>
    ELSE IF room.game.turnSeat # room.players[pi].seatIndex THEN <<>>
    ELSE IF ~isPlayerActiveForPlay(room, room.players[pi]) THEN <<>>
    ELSE IF room.game.phase \in {"dealer-discard", "playing"}
    THEN room.players[pi].hand
    ELSE <<>>

\* getLegalPlays: the card ids the player may play (or discard), in hand
\* order.
getLegalPlays(room, playerId) ==
  IF ~hasGame(room) THEN <<>>
  ELSE
    LET pi == getPlayerById(room, playerId) IN
    IF pi = 0 THEN <<>>
    ELSE
      LET player == room.players[pi]
          game == room.game
      IN
      IF game.turnSeat # player.seatIndex THEN <<>>
      ELSE IF ~isPlayerActiveForPlay(room, player) THEN <<>>
      ELSE IF game.phase = "dealer-discard" THEN player.hand
      ELSE IF game.phase # "playing" THEN <<>>
      ELSE IF game.trump = NoSuit \/ game.currentTrick = <<>> THEN player.hand
      ELSE
        LET leadSuit == effectiveSuit(game.currentTrick[1].card, game.trump)
            followSuitCards ==
              Filter(player.hand,
                     {c \in Cards : effectiveSuit(c, game.trump) = leadSuit})
        IN IF followSuitCards = <<>> THEN player.hand ELSE followSuitCards

\* The players in seat order: [...room.players].sort by seatIndex.
sortedBySeat(players) ==
  [i \in 1 .. Len(players) |->
     players[CHOOSE j \in 1 .. Len(players) :
               Cardinality({l \in 1 .. Len(players) :
                              players[l].seatIndex < players[j].seatIndex}) = i - 1]]

NoYou == [id |-> NoPlayer]

\* The entry of a player that also carries the player's cards.
publicPlayer_WithHand(player) ==
  [id |-> player.id,
   name |-> player.name,
   seatIndex |-> player.seatIndex,
   connected |-> player.connected,
   isBot |-> player.isBot,
   handCount |-> Len(player.hand),
   hand |-> player.hand]

\* The entry of a player in the snapshot's players list.
publicPlayer(player) ==
  [id |-> player.id,
   name |-> player.name,
   seatIndex |-> player.seatIndex,
   connected |-> player.connected,
   isBot |-> player.isBot,
   handCount |-> Len(player.hand)]

\* buildClientState: the snapshot of the room sent to viewerPlayerId
\* (roomName left out).
buildClientState(room, viewerPlayerId) ==
  LET mi == getPlayerById(room, viewerPlayerId)
      viewerIsCreator == room.creatorPlayerId = viewerPlayerId
      nameOf(playerId) ==
        IF getPlayerById(room, playerId) = 0 THEN "Unknown"
        ELSE room.players[getPlayerById(room, playerId)].name
      seatOf(playerId) ==
        IF getPlayerById(room, playerId) = 0 THEN NoSeat
        ELSE room.players[getPlayerById(room, playerId)].seatIndex
      byseat == sortedBySeat(room.players)
      game == room.game
  IN [maxPlayers |-> ROOM_SIZE,
      status |-> room.status,
      botDifficulty |-> room.botDifficulty,
      botCount |-> room.botCount,
      score |-> room.score,
      players |-> [i \in 1 .. Len(byseat) |-> publicPlayer(byseat[i])],
      you |-> IF mi = 0 THEN NoYou
              ELSE [id |-> room.players[mi].id,
                    name |-> room.players[mi].name,
                    seatIndex |-> room.players[mi].seatIndex,
                    isCreator |-> viewerIsCreator,
                    creatorToken |-> IF viewerIsCreator THEN room.creatorToken
                                     ELSE NoToken,
                    hand |-> room.players[mi].hand],
      game |-> IF ~hasGame(room) THEN NoGame
               ELSE [phase |-> game.phase,
                     dealerSeat |-> game.dealerSeat,
                     turnSeat |-> game.turnSeat,
                     upcard |-> game.upcard,
                     blockedSuit |-> game.blockedSuit,
                     trump |-> game.trump,
                     trickIndex |-> game.trickIndex,
                     currentTrick |->
                       [i \in 1 .. Len(game.currentTrick) |->
                          [playerId |-> game.currentTrick[i].playerId,
                           playerName |-> nameOf(game.currentTrick[i].playerId),
                           seatIndex |-> seatOf(game.currentTrick[i].playerId),
                           card |-> game.currentTrick[i].card]],
                     completedTricks |-> game.completedTricks,
                     handSummary |-> game.handSummary,
                     makerTeam |-> game.makerTeam,
                     calledByPlayerId |-> game.calledByPlayerId,
                     goingAlonePlayerId |-> game.goingAlonePlayerId,
                     sittingOutSeat |-> game.sittingOutSeat,
                     calledByName |-> IF getPlayerById(room, game.calledByPlayerId) = 0
                                      THEN "" ELSE nameOf(game.calledByPlayerId),
                     handNumber |-> game.handNumber],
      legalPlays |-> IF mi = 0 THEN <<>> ELSE getLegalPlays(room, viewerPlayerId),
      targetScore |-> TARGET_SCORE]

\* resolveTrickWinner: the play with the highest rankStrength, the earlier
\* play on a tie (score > bestScore); returns its playerId.
RECURSIVE bestPlay(_, _, _, _, _)
bestPlay(cards, trump, leadSuit, from, winner) ==
  IF from > Len(cards) THEN winner
  ELSE IF rankStrength(cards[from].card, trump, leadSuit)
            > rankStrength(cards[winner].card, trump, leadSuit)
       THEN bestPlay(cards, trump, leadSuit, from + 1, from)
       ELSE bestPlay(cards, trump, leadSuit, from + 1, winner)

\* resolveTrickWinner that never looks past the lead.
resolveTrickWinner_Lead(cards, trump) == cards[1].playerId

resolveTrickWinner(cards, trump) ==
  cards[bestPlay(cards, trump, effectiveSuit(cards[1].card, trump), 2, 1)].playerId

\* ------------------------------------------------------------- handlers
\* A handler returns the room as it leaves it, whether it threw, and the
\* number of sendInfo calls it made.
Done(room, infos) == [err |-> FALSE, room |-> room, infos |-> infos]
Throw(room) == [err |-> TRUE, room |-> room, infos |-> 0]

\* startNewHand(room, dealerSeat?, resetScore): dealerSeat = NoSeat when the
\* argument is omitted; k is the shuffle and rnd the Math.random dealer.
startNewHand(room, dealerSeat, resetScore, k, rnd) ==
  IF Len(room.players) # ROOM_SIZE THEN room
  ELSE
    LET activeDealerSeat ==
          IF dealerSeat # NoSeat THEN dealerSeat
          ELSE IF hasGame(room) THEN room.game.dealerSeat
          ELSE rnd
        shuffled == shuffleDeck(createDeck, k)
        dealt == ROOM_SIZE * HAND_SIZE
    IN [room EXCEPT
          !.score = IF resetScore THEN [team0 |-> 0, team1 |-> 0] ELSE @,
          !.players = [i \in 1 .. Len(room.players) |->
             [room.players[i] EXCEPT
                !.hand = SubSeq(shuffled, HAND_SIZE * (i - 1) + 1, HAND_SIZE * i)]],
          !.status = "playing",
          !.game = [phase |-> "bidding-round-1",
                    dealerSeat |-> activeDealerSeat,
                    turnSeat |-> nextSeat(activeDealerSeat),
                    upcard |-> shuffled[dealt + 1],
                    kitty |-> SubSeq(shuffled, dealt + 2, DECK_SIZE),
                    blockedSuit |-> NoSuit,
                    trump |-> NoSuit,
                    makerTeam |-> NoTeam,
                    calledByPlayerId |-> NoPlayer,
                    goingAlonePlayerId |-> NoPlayer,
                    sittingOutSeat |-> NoSeat,
                    currentTrick |-> <<>>,
                    completedTricks |-> <<>>,
                    trickIndex |-> 0,
                    handSummary |-> NoSummary,
                    handNumber |->
                      (IF hasGame(room) THEN room.game.handNumber ELSE 0) + 1]]

\* startPlayingPhase that gives the lead to the seat left of the dealer,
\* sitting out or not.
startPlayingPhase_LeftOfDealer(room) ==
  IF \/ ~hasGame(room)
     \/ room.game.trump = NoSuit
     \/ room.game.makerTeam = NoTeam
     \/ room.game.calledByPlayerId = NoPlayer
  THEN room
  ELSE [room EXCEPT
          !.game.phase = "playing",
          !.game.turnSeat = nextSeat(room.game.dealerSeat),
          !.game.currentTrick = <<>>,
          !.game.completedTricks = <<>>,
          !.game.trickIndex = 0,
          !.game.handSummary = NoSummary,
          !.status = "playing"]

startPlayingPhase(room) ==
  IF \/ ~hasGame(room)
     \/ room.game.trump = NoSuit
     \/ room.game.makerTeam = NoTeam
     \/ room.game.calledByPlayerId = NoPlayer
  THEN room
  ELSE [room EXCEPT
          !.game.phase = "playing",
          !.game.turnSeat = nextActiveSeat(room, room.game.dealerSeat),
          !.game.currentTrick = <<>>,
          !.game.completedTricks = <<>>,
          !.game.trickIndex = 0,
          !.game.handSummary = NoSummary,
          !.status = "playing"]

\* finalizeHand that scores a loner sweep like any other sweep.
finalizeHand_NoLonerBonus(room) ==
  IF ~hasGame(room) \/ room.game.makerTeam = NoTeam THEN Done(room, 0)
  ELSE
    LET game == room.game
        makerTricks ==
          Cardinality({i \in 1 .. Len(game.completedTricks) :
             getTeamForSeat(game.completedTricks[i].winnerSeat) = game.makerTeam})
        awardedTo == IF makerTricks >= 3 THEN game.makerTeam ELSE 1 - game.makerTeam
        pointsAwarded == IF makerTricks \in {3, 4} THEN 1 ELSE 2
        score == IF awardedTo = 0
                 THEN [room.score EXCEPT !.team0 = @ + pointsAwarded]
                 ELSE [room.score EXCEPT !.team1 = @ + pointsAwarded]
    IN Done([room EXCEPT
               !.score = score,
               !.game.handSummary = [makerTeam |-> game.makerTeam,
                                     makerTricks |-> makerTricks,
                                     defenderTricks |-> ROOM_SIZE + 1 - makerTricks,
                                     pointsAwarded |-> pointsAwarded,
                                     awardedTo |-> awardedTo],
               !.game.phase = IF score.team0 < TARGET_SCORE /\ score.team1 < TARGET_SCORE
                              THEN "hand-over" ELSE "game-over"],
            1)

\* finalizeHand: one sendInfo on either branch.
finalizeHand(room) ==
  IF ~hasGame(room) \/ room.game.makerTeam = NoTeam THEN Done(room, 0)
  ELSE
    LET game == room.game
        makerTeam == game.makerTeam
        defenderTeam == IF makerTeam = 0 THEN 1 ELSE 0
        makerTricks ==
          Cardinality({i \in 1 .. Len(game.completedTricks) :
             getTeamForSeat(game.completedTricks[i].winnerSeat) = makerTeam})
        defenderTricks == ROOM_SIZE + 1 - makerTricks
        awardedTo == IF makerTricks >= 3 THEN makerTeam ELSE defenderTeam
        pointsAwarded ==
          IF makerTricks >= 3
          THEN (IF makerTricks = 5 /\ game.goingAlonePlayerId # NoPlayer THEN 4
                ELSE IF makerTricks = 5 THEN 2 ELSE 1)
          ELSE 2
        score == IF awardedTo = 0
                 THEN [room.score EXCEPT !.team0 = @ + pointsAwarded]
                 ELSE [room.score EXCEPT !.team1 = @ + pointsAwarded]
        winningTeam == IF score.team0 >= TARGET_SCORE THEN 0
                       ELSE IF score.team1 >= TARGET_SCORE THEN 1
                       ELSE NoTeam
    IN Done([room EXCEPT
               !.score = score,
               !.game.handSummary = [makerTeam |-> makerTeam,
                                     makerTricks |-> makerTricks,
                                     defenderTricks |-> defenderTricks,
                                     pointsAwarded |-> pointsAwarded,
                                     awardedTo |-> awardedTo],
               !.game.phase = IF winningTeam = NoTeam
                              THEN "hand-over" ELSE "game-over"],
            1)

\* The seat of the caller's partner, or null:
\* room.players.find((p) => team(p.seatIndex) === makerTeam && p.id !== playerId).
partnerSeat(room, makerTeam, playerId) ==
  LET pi == FindIndex(room.players,
               {room.players[i] : i \in {j \in 1 .. Len(room.players) :
                  /\ getTeamForSeat(room.players[j].seatIndex) = makerTeam
                  /\ room.players[j].id # playerId}})
  IN IF pi = 0 THEN NoSeat ELSE room.players[pi].seatIndex

\* True when the player on turn is not playerId (the handlers' turn check).
notOnTurn(room, playerId) ==
  LET ci == getSeatPlayer(room, room.game.turnSeat)
  IN ci = 0 \/ room.players[ci].id # playerId

\* handlePass that redeals with the same dealer.
handlePass_SameDealer(room, playerId, k) ==
  IF ~hasGame(room) THEN Done(room, 0)
  ELSE IF notOnTurn(room, playerId) THEN Throw(room)
  ELSE IF room.game.phase \notin {"bidding-round-1", "bidding-round-2"}
  THEN Throw(room)
  ELSE IF room.game.turnSeat # room.game.dealerSeat
  THEN Done([room EXCEPT !.game.turnSeat = nextSeat(@)], 0)
  ELSE IF room.game.phase = "bidding-round-1"
  THEN Done([room EXCEPT
               !.game.phase = "bidding-round-2",
               !.game.turnSeat = nextSeat(room.game.dealerSeat),
               !.game.blockedSuit =
                  IF room.game.upcard = NoCard THEN NoSuit
                  ELSE suitOf(room.game.upcard)],
            0)
  ELSE Done(startNewHand(room, room.game.dealerSeat, FALSE, k, 0), 1)

handlePass(room, playerId, k) ==
  IF ~hasGame(room) THEN Done(room, 0)
  ELSE IF notOnTurn(room, playerId) THEN Throw(room)
  ELSE
    LET game == room.game
        turnAfterPass == nextSeat(game.turnSeat)
    IN
    IF game.phase = "bidding-round-1" THEN
      (IF turnAfterPass = nextSeat(game.dealerSeat)
       THEN Done([room EXCEPT
                    !.game.phase = "bidding-round-2",
                    !.game.turnSeat = nextSeat(game.dealerSeat),
                    !.game.blockedSuit =
                       IF game.upcard = NoCard THEN NoSuit ELSE suitOf(game.upcard)],
                 0)
       ELSE Done([room EXCEPT !.game.turnSeat = turnAfterPass], 0))
    ELSE IF game.phase = "bidding-round-2" THEN
      (IF turnAfterPass = nextSeat(game.dealerSeat)
       THEN Done(startNewHand(room, nextSeat(game.dealerSeat), FALSE, k, 0), 1)
       ELSE Done([room EXCEPT !.game.turnSeat = turnAfterPass], 0))
    ELSE Throw(room)

\* handleOrderUp that leaves the turn with the caller.
handleOrderUp_CallerKeepsTurn(room, playerId, alone) ==
  IF ~hasGame(room) \/ room.game.phase # "bidding-round-1" THEN Throw(room)
  ELSE IF notOnTurn(room, playerId) THEN Throw(room)
  ELSE IF room.game.upcard = NoCard THEN Throw(room)
  ELSE IF getSeatPlayer(room, room.game.dealerSeat) = 0 THEN Throw(room)
  ELSE Done([room EXCEPT
               !.players[getSeatPlayer(room, room.game.dealerSeat)].hand =
                  Append(@, room.game.upcard),
               !.game.phase = "dealer-discard",
               !.game.trump = suitOf(room.game.upcard),
               !.game.makerTeam = getTeamForSeat(room.game.turnSeat),
               !.game.calledByPlayerId = playerId,
               !.game.goingAlonePlayerId = IF alone THEN playerId ELSE NoPlayer,
               !.game.sittingOutSeat =
                  IF alone
                  THEN partnerSeat(room, getTeamForSeat(room.game.turnSeat), playerId)
                  ELSE NoSeat,
               !.game.currentTrick = <<>>,
               !.game.completedTricks = <<>>,
               !.game.trickIndex = 0],
            1)

handleOrderUp(room, playerId, alone) ==
  IF ~hasGame(room) \/ room.game.phase # "bidding-round-1" THEN Throw(room)
  ELSE IF notOnTurn(room, playerId) THEN Throw(room)
  ELSE IF room.game.upcard = NoCard THEN Throw(room)
  ELSE
    LET game == room.game
        ci == getSeatPlayer(room, game.turnSeat)
        di == getSeatPlayer(room, game.dealerSeat)
        makerTeam == getTeamForSeat(room.players[ci].seatIndex)
    IN
    IF di = 0 THEN Throw(room)
    ELSE Done([room EXCEPT
                 !.players[di].hand = Append(@, game.upcard),
                 !.game.phase = "dealer-discard",
                 !.game.trump = suitOf(game.upcard),
                 !.game.makerTeam = makerTeam,
                 !.game.calledByPlayerId = playerId,
                 !.game.goingAlonePlayerId = IF alone THEN playerId ELSE NoPlayer,
                 !.game.sittingOutSeat =
                    IF alone THEN partnerSeat(room, makerTeam, playerId) ELSE NoSeat,
                 !.game.turnSeat = room.players[di].seatIndex,
                 !.game.currentTrick = <<>>,
                 !.game.completedTricks = <<>>,
                 !.game.trickIndex = 0],
              1)

\* handleChooseTrump that moves the turn on before it refuses the blocked
\* suit.
handleChooseTrump_TurnMoves(room, playerId, suit, alone) ==
  IF ~hasGame(room) \/ room.game.phase # "bidding-round-2" THEN Throw(room)
  ELSE IF notOnTurn(room, playerId) THEN Throw(room)
  ELSE IF suit = NoSuit THEN Throw(room)
  ELSE IF room.game.blockedSuit = suit
  THEN Throw([room EXCEPT !.game.turnSeat = nextSeat(@)])
  ELSE
    LET ci == getSeatPlayer(room, room.game.turnSeat)
        makerTeam == getTeamForSeat(room.players[ci].seatIndex)
    IN Done(startPlayingPhase(
              [room EXCEPT
                 !.game.trump = suit,
                 !.game.makerTeam = makerTeam,
                 !.game.calledByPlayerId = playerId,
                 !.game.goingAlonePlayerId = IF alone THEN playerId ELSE NoPlayer,
                 !.game.sittingOutSeat =
                    IF alone THEN partnerSeat(room, makerTeam, playerId) ELSE NoSeat]),
            1)

\* suit = NoSuit when the message carries none.
handleChooseTrump(room, playerId, suit, alone) ==
  IF ~hasGame(room) \/ room.game.phase # "bidding-round-2" THEN Throw(room)
  ELSE IF notOnTurn(room, playerId) THEN Throw(room)
  ELSE IF suit = NoSuit THEN Throw(room)
  ELSE IF room.game.blockedSuit = suit THEN Throw(room)
  ELSE
    LET ci == getSeatPlayer(room, room.game.turnSeat)
        makerTeam == getTeamForSeat(room.players[ci].seatIndex)
    IN Done(startPlayingPhase(
              [room EXCEPT
                 !.game.trump = suit,
                 !.game.makerTeam = makerTeam,
                 !.game.calledByPlayerId = playerId,
                 !.game.goingAlonePlayerId = IF alone THEN playerId ELSE NoPlayer,
                 !.game.sittingOutSeat =
                    IF alone THEN partnerSeat(room, makerTeam, playerId) ELSE NoSeat]),
            1)

\* handleDiscard that starts the play with the card still in the hand.
handleDiscard_KeepsCard(room, playerId, cardId) ==
  IF ~hasGame(room) \/ room.game.phase # "dealer-discard" THEN Throw(room)
  ELSE IF notOnTurn(room, playerId) THEN Throw(room)
  ELSE IF cardId = NoCard THEN Throw(room)
  ELSE IF FindIndex(room.players[getSeatPlayer(room, room.game.turnSeat)].hand,
                    {cardId}) = 0
  THEN Throw(room)
  ELSE Done(startPlayingPhase(room), 0)

\* cardId = NoCard when the message carries none.
handleDiscard(room, playerId, cardId) ==
  IF ~hasGame(room) \/ room.game.phase # "dealer-discard" THEN Throw(room)
  ELSE IF notOnTurn(room, playerId) THEN Throw(room)
  ELSE IF cardId = NoCard THEN Throw(room)
  ELSE
    LET ci == getSeatPlayer(room, room.game.turnSeat)
        handIndex == FindIndex(room.players[ci].hand, {cardId})
    IN IF handIndex = 0 THEN Throw(room)
       ELSE Done(startPlayingPhase(
                   [room EXCEPT !.players[ci].hand = RemoveAt(@, handIndex)]),
                 0)

handlePlayCard(room, playerId, cardId) ==
  IF ~hasGame(room) \/ room.game.phase # "playing" THEN Throw(room)
  ELSE IF notOnTurn(room, playerId) THEN Throw(room)
  ELSE
    LET ci == getSeatPlayer(room, room.game.turnSeat)
        currentPlayer == room.players[ci]
        handIndex == FindIndex(currentPlayer.hand, {cardId})
    IN
    IF ~isPlayerActiveForPlay(room, currentPlayer) THEN Throw(room)
    ELSE IF cardId = NoCard THEN Throw(room)
    ELSE IF cardId \notin Range(getLegalPlays(room, playerId)) THEN Throw(room)
    ELSE IF handIndex = 0 THEN Throw(room)
    ELSE
      LET played == [room EXCEPT
                       !.players[ci].hand = RemoveAt(@, handIndex),
                       !.game.currentTrick =
                          Append(@, [playerId |-> playerId, card |-> cardId])]
          trick == played.game.currentTrick
      IN
      IF Len(trick) < activeSeatCountForPlay(played)
      THEN Done([played EXCEPT
                   !.game.turnSeat = nextActiveSeat(played, room.game.turnSeat)],
                0)
      ELSE IF played.game.trump = NoSuit THEN Throw(played)
      ELSE
        LET wi == getPlayerById(played,
                                resolveTrickWinner(trick, played.game.trump))
        IN
        IF wi = 0 THEN Throw(played)
        ELSE
          LET winner == played.players[wi]
              resolved == [played EXCEPT
                 !.game.completedTricks =
                    Append(@, [index |-> played.game.trickIndex,
                               winnerSeat |-> winner.seatIndex,
                               cards |-> trick]),
                 !.game.currentTrick = <<>>]
          IN
          IF played.game.trickIndex >= LAST_TRICK_INDEX
          THEN [finalizeHand(resolved) EXCEPT !.infos = @ + 1]
          ELSE Done([resolved EXCEPT
                       !.game.trickIndex = @ + 1,
                       !.game.turnSeat = winner.seatIndex],
                    1)

\* handleStartNextHand that deals the next hand with the score reset.
handleStartNextHand_ResetScore(room, k) ==
  IF ~hasGame(room) \/ Len(room.players) # ROOM_SIZE THEN Throw(room)
  ELSE IF room.game.phase # "hand-over" THEN Throw(room)
  ELSE Done(startNewHand(room, nextSeat(room.game.dealerSeat), TRUE, k, 0), 0)

\* handleStartNextHand that also deals once the match is over.
handleStartNextHand_AfterGameOver(room, k) ==
  IF ~hasGame(room) \/ Len(room.players) # ROOM_SIZE THEN Throw(room)
  ELSE IF room.game.phase \notin {"hand-over", "game-over"} THEN Throw(room)
  ELSE Done(startNewHand(room, nextSeat(room.game.dealerSeat), FALSE, k, 0), 0)

\* handleStartNextHand that deals whatever the phase.
handleStartNextHand_AnyPhase(room, k) ==
  IF ~hasGame(room) \/ Len(room.players) # ROOM_SIZE THEN Throw(room)
  ELSE Done(startNewHand(room, nextSeat(room.game.dealerSeat), FALSE, k, 0), 0)

handleStartNextHand(room, k) ==
  IF ~hasGame(room) \/ Len(room.players) # ROOM_SIZE THEN Throw(room)
  ELSE IF room.game.phase # "hand-over" THEN Throw(room)
  ELSE Done(startNewHand(room, nextSeat(room.game.dealerSeat), FALSE, k, 0), 0)

\* handleRestartMatch that deals the next hand without resetting the score.
handleRestartMatch_KeepScore(room, k) ==
  IF ~hasGame(room) \/ Len(room.players) # ROOM_SIZE THEN Throw(room)
  ELSE IF room.game.phase # "game-over" THEN Throw(room)
  ELSE Done(startNewHand(room, nextSeat(room.game.dealerSeat), FALSE, k, 0), 0)

handleRestartMatch(room, k) ==
  IF ~hasGame(room) \/ Len(room.players) # ROOM_SIZE THEN Throw(room)
  ELSE IF room.game.phase # "game-over" THEN Throw(room)
  ELSE Done(startNewHand(room, nextSeat(room.game.dealerSeat), TRUE, k, 0), 0)

\* ------------------------------------------------------- lobby handlers
BOT_NAMES ==
  <<"Atlas Bot", "Rook Bot", "Vega Bot", "Nova Bot",
    "Kite Bot", "Echo Bot", "Orion Bot", "Mira Bot">>

\* nextBotName: the first "<name> Bot" no player has.  The room holds fewer
\* than four players when it is called, so one of the first four is free.
nextBotName(room) ==
  LET existing == {room.players[i].name : i \in 1 .. Len(room.players)}
  IN BOT_NAMES[CHOOSE i \in 1 .. Len(BOT_NAMES) :
       /\ BOT_NAMES[i] \notin existing
       /\ \A j \in 1 .. (i - 1) : BOT_NAMES[j] \in existing]

\* crypto.randomUUID(): an id no player of the room has.
freshPlayerId(room) ==
  CHOOSE id \in 1 .. (Len(room.players) + 1) :
    /\ \A i \in 1 .. Len(room.players) : room.players[i].id # id
    /\ \A other \in 1 .. (id - 1) :
         \E i \in 1 .. Len(room.players) : room.players[i].id = other

botCountOf(players) ==
  Cardinality({i \in 1 .. Len(players) : players[i].isBot})

inLobby(room) == room.status = "waiting" /\ ~hasGame(room)

handleAddBot(room, playerId) ==
  IF room.creatorPlayerId # playerId THEN Throw(room)
  ELSE IF ~inLobby(room) THEN Throw(room)
  ELSE IF Len(room.players) >= ROOM_SIZE THEN Throw(room)
  ELSE
    LET occupiedSeats == {room.players[i].seatIndex : i \in 1 .. Len(room.players)}
        freeSeats == Seats \ occupiedSeats
    IN IF freeSeats = {} THEN Throw(room)
       ELSE
         LET seatIndex == CHOOSE seat \in freeSeats :
                            \A other \in freeSeats : seat <= other
             players == Append(room.players,
                          [id |-> freshPlayerId(room),
                           name |-> nextBotName(room),
                           seatIndex |-> seatIndex,
                           connected |-> TRUE,
                           isBot |-> TRUE,
                           hand |-> <<>>])
         IN Done([room EXCEPT !.players = players,
                              !.botCount = botCountOf(players)], 0)

\* handleRemoveBot that does not ask for the lobby.
handleRemoveBot_AnyTime(room, playerId) ==
  IF room.creatorPlayerId # playerId THEN Throw(room)
  ELSE
    LET bots == {i \in 1 .. Len(room.players) : room.players[i].isBot} IN
    IF bots = {} THEN Throw(room)
    ELSE
      LET bi == CHOOSE i \in bots : \A j \in bots :
                  room.players[i].seatIndex >= room.players[j].seatIndex
          kept == Filter(room.players, Range(room.players) \ {room.players[bi]})
      IN Done([room EXCEPT !.players = kept, !.botCount = botCountOf(kept)], 0)

handleRemoveBot(room, playerId) ==
  IF room.creatorPlayerId # playerId THEN Throw(room)
  ELSE IF ~inLobby(room) THEN Throw(room)
  ELSE
    LET bots == {i \in 1 .. Len(room.players) : room.players[i].isBot} IN
    IF bots = {} THEN Throw(room)
    ELSE
      LET bi == CHOOSE i \in bots : \A j \in bots :
                  room.players[i].seatIndex >= room.players[j].seatIndex
          keep == {i \in 1 .. Len(room.players) :
                     room.players[i].id # room.players[bi].id}
          RECURSIVE Kept(_)
          Kept(i) == IF i > Len(room.players) THEN <<>>
                     ELSE (IF i \in keep THEN <<room.players[i]>> ELSE <<>>)
                          \o Kept(i + 1)
      IN Done([room EXCEPT !.players = Kept(1),
                           !.botCount = botCountOf(Kept(1))], 0)

\* parseSeatIndex on an integer; NoSeat when the message carries none.
parseSeatIndex(value) ==
  IF value = NoSeat \/ value < 0 \/ value >= ROOM_SIZE THEN NoSeat ELSE value

\* handleSetSeat that leaves the occupant of the requested seat where it is.
handleSetSeat_NoSwap(room, playerId, targetPlayerId, requestedSeatIndex) ==
  IF room.creatorPlayerId # playerId THEN Throw(room)
  ELSE IF ~inLobby(room) THEN Throw(room)
  ELSE IF targetPlayerId = NoPlayer THEN Throw(room)
  ELSE IF parseSeatIndex(requestedSeatIndex) = NoSeat THEN Throw(room)
  ELSE IF getPlayerById(room, targetPlayerId) = 0 THEN Throw(room)
  ELSE Done([room EXCEPT
               !.players[getPlayerById(room, targetPlayerId)].seatIndex =
                  parseSeatIndex(requestedSeatIndex)], 0)

\* handleSetSeat that also moves players once the game has started.
handleSetSeat_InGame(room, playerId, targetPlayerId, requestedSeatIndex) ==
  IF room.creatorPlayerId # playerId THEN Throw(room)
  ELSE IF targetPlayerId = NoPlayer THEN Throw(room)
  ELSE IF parseSeatIndex(requestedSeatIndex) = NoSeat THEN Throw(room)
  ELSE
    LET seatIndex == parseSeatIndex(requestedSeatIndex)
        ti == getPlayerById(room, targetPlayerId)
        oi == getSeatPlayer(room, seatIndex)
    IN IF ti = 0 THEN Throw(room)
       ELSE Done([room EXCEPT !.players =
                    [i \in 1 .. Len(room.players) |->
                       IF i = ti THEN [room.players[i] EXCEPT !.seatIndex = seatIndex]
                       ELSE IF i = oi
                         THEN [room.players[i] EXCEPT
                                 !.seatIndex = room.players[ti].seatIndex]
                       ELSE room.players[i]]], 0)

handleSetSeat(room, playerId, targetPlayerId, requestedSeatIndex) ==
  IF room.creatorPlayerId # playerId THEN Throw(room)
  ELSE IF ~inLobby(room) THEN Throw(room)
  ELSE IF targetPlayerId = NoPlayer THEN Throw(room)
  ELSE IF parseSeatIndex(requestedSeatIndex) = NoSeat THEN Throw(room)
  ELSE
    LET seatIndex == parseSeatIndex(requestedSeatIndex)
        ti == getPlayerById(room, targetPlayerId)
        oi == getSeatPlayer(room, seatIndex)
    IN IF ti = 0 THEN Throw(room)
       ELSE Done([room EXCEPT !.players =
                    [i \in 1 .. Len(room.players) |->
                       IF i = ti THEN [room.players[i] EXCEPT !.seatIndex = seatIndex]
                       ELSE IF i = oi
                         THEN [room.players[i] EXCEPT
                                 !.seatIndex = room.players[ti].seatIndex]
                       ELSE room.players[i]]], 0)

\* handleSetBotDifficulty that does not ask who sends it.
handleSetBotDifficulty_AnySender(room, playerId, botDifficulty) ==
  IF ~inLobby(room) THEN Throw(room)
  ELSE IF botDifficulty = "" THEN Throw(room)
  ELSE Done([room EXCEPT !.botDifficulty = botDifficulty], 0)

\* botDifficulty = "" when the message carries none.
handleSetBotDifficulty(room, playerId, botDifficulty) ==
  IF room.creatorPlayerId # playerId THEN Throw(room)
  ELSE IF ~inLobby(room) THEN Throw(room)
  ELSE IF botDifficulty = "" THEN Throw(room)
  ELSE Done([room EXCEPT !.botDifficulty = botDifficulty], 0)

handleStartRoom(room, playerId, k, rnd) ==
  IF room.creatorPlayerId # playerId THEN Throw(room)
  ELSE IF ~inLobby(room) THEN Throw(room)
  ELSE IF Len(room.players) # ROOM_SIZE THEN Throw(room)
  ELSE Done(startNewHand(room, NoSeat, FALSE, k, rnd), 1)

\* ------------------------------------------------------ client messages
\* A ClientEnvelope of type "action"; a field the message does not carry is
\* null ("" for botDifficulty).
Message(action) ==
  [action |-> action, suit |-> NoSuit, cardId |-> NoCard, alone |-> FALSE,
   seatIndex |-> NoSeat, targetPlayerId |-> NoPlayer, botDifficulty |-> ""]

handleAction(room, playerId, message, k, rnd) ==
  CASE message.action = "pass" -> handlePass(room, playerId, k)
    [] message.action = "order-up" -> handleOrderUp(room, playerId, message.alone)
    [] message.action = "choose-trump" ->
         handleChooseTrump(room, playerId, message.suit, message.alone)
    [] message.action = "play-card" -> handlePlayCard(room, playerId, message.cardId)
    [] message.action = "discard" -> handleDiscard(room, playerId, message.cardId)
    [] message.action = "start-next-hand" -> handleStartNextHand(room, k)
    [] message.action = "restart-match" -> handleRestartMatch(room, k)
    [] message.action = "add-bot" -> handleAddBot(room, playerId)
    [] message.action = "remove-bot" -> handleRemoveBot(room, playerId)
    [] message.action = "set-seat" ->
         handleSetSeat(room, playerId, message.targetPlayerId, message.seatIndex)
    [] message.action = "set-bot-difficulty" ->
         handleSetBotDifficulty(room, playerId, message.botDifficulty)
    [] message.action = "start-room" -> handleStartRoom(room, playerId, k, rnd)
    [] OTHER -> Throw(room)

\* toLowerCase that leaves the name as it is.
toLowerCase_Identity(name) == name

\* ---------------------------------------------------- the HTTP endpoints
\* String.prototype.toLowerCase on the names in use.
toLowerCase(name) ==
  CASE name = "P1" -> "p1"
    [] name = "P2" -> "p2"
    [] name = "P3" -> "p3"
    [] name = "P4" -> "p4"
    [] name = "Atlas Bot" -> "atlas bot"
    [] name = "Rook Bot" -> "rook bot"
    [] name = "Vega Bot" -> "vega bot"
    [] name = "Nova Bot" -> "nova bot"
    [] OTHER -> name

\* A /websocket request: the sanitized name, the password, create = 1 or
\* not, the creator token of the query or the header; "" for none.
Request(name, password, create, creatorToken) ==
  [name |-> name, password |-> password, create |-> create,
   creatorToken |-> creatorToken]

\* room.password && room.password !== password
passwordMismatch(room, password) ==
  room.password # NoPassword /\ room.password # password

\* connectToRoom up to "await this.persistRooms()": the response status (101
\* for the upgrade), the room and the sessions as it leaves them, and the
\* player the new session is bound to.  r is NoRoom when the name has no
\* room; a token the request does not bring is one crypto.randomUUID mints.
connectToRoom(r, sess, request) ==
  LET existingRoom == r # NoRoom
      providedCreatorToken == request.creatorToken
      refused(status) ==
        [status |-> status, room |-> r, sessions |-> sess, playerId |-> NoPlayer]
  IN
  IF request.name = "" THEN refused(400)
  ELSE IF /\ request.create
          /\ existingRoom
          /\ (providedCreatorToken = NoToken \/ providedCreatorToken # r.creatorToken)
  THEN refused(409)
  ELSE IF ~existingRoom /\ ~request.create THEN refused(404)
  ELSE
    LET room == IF existingRoom THEN r
                ELSE [status |-> "waiting",
                      password |-> request.password,
                      creatorToken |-> IF providedCreatorToken # NoToken
                                       THEN providedCreatorToken ELSE "minted",
                      creatorPlayerId |-> NoPlayer,
                      botDifficulty |-> "medium",
                      botCount |-> 0,
                      score |-> [team0 |-> 0, team1 |-> 0],
                      players |-> <<>>,
                      game |-> NoGame]
        existingPlayer ==
          FindIndex(room.players,
                    {room.players[i] : i \in {j \in 1 .. Len(room.players) :
                       toLowerCase(room.players[j].name) = toLowerCase(request.name)}})
        occupiedSeats == {room.players[i].seatIndex : i \in 1 .. Len(room.players)}
        freeSeats == Seats \ occupiedSeats
        accepted(joined, playerId) ==
          [status |-> 101,
           room |-> [joined EXCEPT
                       !.creatorPlayerId =
                          IF ~existingRoom THEN playerId
                          ELSE IF /\ providedCreatorToken # NoToken
                                  /\ providedCreatorToken = room.creatorToken
                          THEN playerId
                          ELSE @],
           sessions |-> sess \cup {playerId},
           playerId |-> playerId]
    IN
    IF passwordMismatch(room, request.password) THEN refused(403)
    ELSE IF existingPlayer # 0
    THEN IF room.players[existingPlayer].isBot THEN refused(409)
         ELSE IF room.players[existingPlayer].connected THEN refused(409)
         ELSE accepted([room EXCEPT !.players[existingPlayer].connected = TRUE],
                       room.players[existingPlayer].id)
    ELSE IF Len(room.players) >= ROOM_SIZE THEN refused(409)
    ELSE IF freeSeats = {} THEN refused(409)
    ELSE accepted([room EXCEPT
                     !.players = Append(@,
                        [id |-> freshPlayerId(room),
                         name |-> request.name,
                         seatIndex |-> CHOOSE seat \in freeSeats :
                                         \A other \in freeSeats : seat <= other,
                         connected |-> TRUE,
                         isBot |-> FALSE,
                         hand |-> <<>>])],
                  freshPlayerId(room))

\* deleteRoom that takes any token that is not empty.
deleteRoom_AnyToken(r, creatorToken) ==
  IF r = NoRoom THEN [status |-> 404, room |-> r]
  ELSE IF creatorToken = NoToken THEN [status |-> 403, room |-> r]
  ELSE [status |-> 200, room |-> NoRoom]

\* deleteRoom: the response status and the room under the name afterwards.
deleteRoom(r, creatorToken) ==
  IF r = NoRoom THEN [status |-> 404, room |-> r]
  ELSE IF creatorToken = NoToken \/ creatorToken # r.creatorToken
  THEN [status |-> 403, room |-> r]
  ELSE [status |-> 200, room |-> NoRoom]

\* listRooms: the body of GET /rooms (name and createdAt left out).
listRooms(r) ==
  IF r = NoRoom THEN <<>>
  ELSE <<[players |-> Len(r.players),
          maxPlayers |-> ROOM_SIZE,
          botCount |-> r.botCount,
          botDifficulty |-> r.botDifficulty,
          creatorPlayerId |-> r.creatorPlayerId,
          hasPassword |-> r.password # NoPassword,
          status |-> r.status]>>

\* restoreState that leaves the connected flags as they were stored.
restoreState_KeepsFlags(stored, sess) == stored

\* restoreState that marks the bots alone and ignores the surviving sockets.
restoreState_BotsOnly(stored, sess) ==
  IF stored = NoRoom THEN NoRoom
  ELSE [stored EXCEPT
          !.players = [i \in 1 .. Len(stored.players) |->
             [stored.players[i] EXCEPT !.connected = stored.players[i].isBot]]]

\* restoreState: the room read back from storage, with connected set for
\* the bots and for the players a surviving socket is bound to.
restoreState(stored, sess) ==
  IF stored = NoRoom THEN NoRoom
  ELSE [stored EXCEPT
          !.players = [i \in 1 .. Len(stored.players) |->
             [stored.players[i] EXCEPT
                !.connected = stored.players[i].isBot
                                \/ stored.players[i].id \in sess]]]

\* --------------------------------------------------- determinizations
\* cardFaceKey: the face "suit-rank" of a card, here the pair.
cardFaceKey(card) == <<suitOf(card), rankOf(card)>>

\* makeCardFromFace: the card a face stands for.
makeCardFromFace(face) == face[1] * RANK_COUNT + face[2]

\* listAllCardFaces: SUITS.flatMap(RANKS).
listAllCardFaces == [i \in 1 .. DECK_SIZE |-> cardFaceKey(i - 1)]

\* inspectTrick of inferVoidSuitsBySeat: the seats that did not follow the
\* effective suit led, each with that suit.
inspectTrick(room, trick) ==
  IF Len(trick) < 2 THEN {}
  ELSE IF getPlayerById(room, trick[1].playerId) = 0 THEN {}
  ELSE
    LET leadSuit == effectiveSuit(trick[1].card, room.game.trump) IN
    {<<room.players[getPlayerById(room, trick[i].playerId)].seatIndex, leadSuit>> :
       i \in {j \in 2 .. Len(trick) :
                /\ getPlayerById(room, trick[j].playerId) # 0
                /\ effectiveSuit(trick[j].card, room.game.trump) # leadSuit}}

\* inferVoidSuitsBySeat: for each seat the suits it is taken to be void in
\* (the Map has no entry where the set here is empty).
inferVoidSuitsBySeat(room) ==
  LET missing ==
        IF ~hasGame(room) THEN {}
        ELSE IF room.game.trump = NoSuit THEN {}
        ELSE UNION {inspectTrick(room, room.game.completedTricks[t].cards) :
                      t \in 1 .. Len(room.game.completedTricks)}
               \cup inspectTrick(room, room.game.currentTrick)
  IN [seat \in Seats |-> {pair[2] : pair \in {p \in missing : p[1] = seat}}]

\* buildVisibleFaceSet: the faces of the bot's hand and of the cards played.
buildVisibleFaceSet(room, botId) ==
  LET bi == getPlayerById(room, botId)
      held == IF bi = 0 THEN {} ELSE Range(room.players[bi].hand)
      played == UNION {{room.game.completedTricks[t].cards[i].card :
                          i \in 1 .. Len(room.game.completedTricks[t].cards)} :
                         t \in 1 .. Len(room.game.completedTricks)}
                  \cup {room.game.currentTrick[i].card :
                          i \in 1 .. Len(room.game.currentTrick)}
  IN {cardFaceKey(card) : card \in held \cup played}

\* shuffleFaces is a Fisher-Yates shuffle over Math.random: any order of the
\* faces.  The k-th order drawn here turns the list by 5 places for every
\* two in k and reverses it for odd k.
FaceShuffles == 0 .. (NumShuffles - 1)

shuffleFaces(faces, k) ==
  LET n == Len(faces)
      turned == [i \in 1 .. n |-> faces[((i - 1 + 5 * (k \div 2)) % n) + 1]]
  IN IF k % 2 = 0 THEN turned ELSE [i \in 1 .. n |-> turned[n + 1 - i]]

\* pendingSeats.sort by the cards still needed, most first (the sort is
\* stable).
RECURSIVE sortByNeed(_, _)
sortByNeed(seats, handSizesBySeat) ==
  IF seats = <<>> THEN <<>>
  ELSE
    LET first == FindIndex(seats,
                   {seat \in Range(seats) :
                      \A other \in Range(seats) :
                        handSizesBySeat[seat] >= handSizesBySeat[other]})
    IN <<seats[first]>> \o sortByNeed(RemoveAt(seats, first), handSizesBySeat)

\* The while loop of assignFacesWithVoidConstraints: the seat that needs
\* most takes the first face left whose suit, as written on the face, is
\* not banned for it, and the first face left when there is none.
RECURSIVE assignLoop(_, _, _, _, _, _)
assignLoop(available, pendingSeats, handSizesBySeat, voidSuitsBySeat, assignment, safety) ==
  IF pendingSeats = <<>> \/ safety >= 200 THEN assignment
  ELSE
    LET sorted == sortByNeed(pendingSeats, handSizesBySeat)
        seat == sorted[1]
        need == handSizesBySeat[seat]
        banned == voidSuitsBySeat[seat]
        candidateIndex ==
          FindIndex(available, {face \in Range(available) : face[1] \notin banned})
        pickedIndex == IF candidateIndex > 0 THEN candidateIndex ELSE 1
    IN IF need <= 0
       THEN assignLoop(available, Tail(sorted), handSizesBySeat,
                       voidSuitsBySeat, assignment, safety + 1)
       ELSE IF available = <<>> THEN assignment
       ELSE assignLoop(RemoveAt(available, pickedIndex), sorted,
                       [handSizesBySeat EXCEPT ![seat] = need - 1],
                       voidSuitsBySeat,
                       [assignment EXCEPT ![seat] = Append(@, available[pickedIndex])],
                       safety + 1)

\* assignFacesWithVoidConstraints with the k-th shuffle: the faces given to
\* each seat (none for a seat that is not in seats).
assignFacesWithVoidConstraints(faces, seats, handSizesBySeat, voidSuitsBySeat, k) ==
  assignLoop(shuffleFaces(faces, k),
             Filter(seats, {seat \in Range(seats) : handSizesBySeat[seat] > 0}),
             handSizesBySeat, voidSuitsBySeat,
             [seat \in Seats |-> <<>>], 0)

\* buildSampledPlayState returns null without a trump.
NoSample == [trump |-> NoSuit]

\* buildSampledPlayState with the k-th shuffle: the bot's own hand, and for
\* the other seats, in the order of room.players, the cards made from the
\* faces assigned to them.
buildSampledPlayState(room, bot, k) ==
  IF ~hasGame(room) THEN NoSample
  ELSE IF room.game.trump = NoSuit THEN NoSample
  ELSE
    LET visibleFaces == buildVisibleFaceSet(room, bot.id)
        unseenFaces == Filter(listAllCardFaces,
                              Range(listAllCardFaces) \ visibleFaces)
        others == Filter(room.players,
                         {player \in Range(room.players) : player.id # bot.id})
        opponentSeats == [i \in 1 .. Len(others) |-> others[i].seatIndex]
        handSizesBySeat ==
          [seat \in Seats |->
             IF \E i \in 1 .. Len(others) : others[i].seatIndex = seat
             THEN Len(room.players[getSeatPlayer(room, seat)].hand)
             ELSE 0]
        faceAssignment ==
          assignFacesWithVoidConstraints(unseenFaces, opponentSeats,
                                         handSizesBySeat,
                                         inferVoidSuitsBySeat(room), k)
    IN [turnSeat |-> room.game.turnSeat,
        trump |-> room.game.trump,
        trickIndex |-> room.game.trickIndex,
        currentTrick |->
          [i \in 1 .. Len(room.game.currentTrick) |->
             [seatIndex |->
                IF getPlayerById(room, room.game.currentTrick[i].playerId) = 0
                THEN -1
                ELSE room.players[getPlayerById(room,
                       room.game.currentTrick[i].playerId)].seatIndex,
              card |-> room.game.currentTrick[i].card]],
        handsBySeat |->
          [seat \in Seats |->
             IF seat = bot.seatIndex THEN bot.hand
             ELSE [i \in 1 .. Len(faceAssignment[seat]) |->
                     makeCardFromFace(faceAssignment[seat][i])]],
        tricksByTeam |->
          [team0 |-> Cardinality({t \in 1 .. Len(room.game.completedTricks) :
                       getTeamForSeat(room.game.completedTricks[t].winnerSeat) = 0}),
           team1 |-> Cardinality({t \in 1 .. Len(room.game.completedTricks) :
                       getTeamForSeat(room.game.completedTricks[t].winnerSeat) # 0})],
        botTeam |-> getTeamForSeat(bot.seatIndex)]

\* ------------------------------------------------------------ bot engine
\* estimateBidScoreViaMinimax and chooseCardViaMinimax score sampled
\* determinizations (Math.random): the bid estimate may fall on either side
\* of the threshold, so a bot may pass or bid; the suit it names, whether it
\* goes alone and the card it plays are each one of the candidates, here
\* the one Pick names.
chooseBidAction(room, bot) ==
  LET game == room.game
      candidateSuits == Filter(<<CLUBS, DIAMONDS, HEARTS, SPADES>>,
                               SUITS \ {game.blockedSuit})
  IN
  IF game.phase = "bidding-round-1" THEN
    (IF game.upcard = NoCard THEN {Message("pass")}
     ELSE {Message("pass"),
           [Message("order-up") EXCEPT !.alone = Pick(<<FALSE, TRUE>>, game)]})
  ELSE IF game.phase = "bidding-round-2" THEN
    (IF candidateSuits = <<>> THEN {Message("pass")}
     ELSE {Message("pass"),
           [Message("choose-trump") EXCEPT !.suit = Pick(candidateSuits, game),
                                           !.alone = Pick(<<FALSE, TRUE>>, game)]})
  ELSE {Message("pass")}

\* estimateBidScoreViaMinimax works on room.game itself.  While it searches
\* the samples, the game carries the candidate trump and an empty first
\* trick led from the dealer's left.
estimateBidSearching(room, trump) ==
  [room EXCEPT !.game.trump = trump,
               !.game.turnSeat = nextSeat(room.game.dealerSeat),
               !.game.currentTrick = <<>>,
               !.game.completedTricks = <<>>,
               !.game.trickIndex = 0]

\* estimateBidScoreViaMinimax that returns without putting the game back.
estimateBidScoreViaMinimax_NoRestore(room, trump) ==
  estimateBidSearching(room, trump)

\* estimateBidScoreViaMinimax that puts back all it saved but the turn.
estimateBidScoreViaMinimax_TurnLeft(room, trump) ==
  LET original == room.game
      searched == estimateBidSearching(room, trump)
  IN [searched EXCEPT !.game.trump = original.trump,
                      !.game.currentTrick = original.currentTrick,
                      !.game.completedTricks = original.completedTricks,
                      !.game.trickIndex = original.trickIndex]

\* The room as estimateBidScoreViaMinimax leaves it: the five fields it
\* saved are put back (the score it returns is the bid estimate, which
\* chooseBidAction lets fall on either side of the threshold).
estimateBidScoreViaMinimax(room, trump) ==
  LET original == room.game
      searched == estimateBidSearching(room, trump)
  IN [searched EXCEPT !.game.trump = original.trump,
                      !.game.turnSeat = original.turnSeat,
                      !.game.currentTrick = original.currentTrick,
                      !.game.completedTricks = original.completedTricks,
                      !.game.trickIndex = original.trickIndex]

\* The suits chooseBidAction has estimated, in order: the upcard's in round
\* one, every suit but the blocked one in round two.
estimatedSuits(room) ==
  IF ~hasGame(room) THEN <<>>
  ELSE IF room.game.phase = "bidding-round-1"
    THEN (IF room.game.upcard = NoCard THEN <<>> ELSE <<suitOf(room.game.upcard)>>)
  ELSE IF room.game.phase = "bidding-round-2"
    THEN Filter(<<CLUBS, DIAMONDS, HEARTS, SPADES>>, SUITS \ {room.game.blockedSuit})
  ELSE <<>>

\* The room once chooseBotAction has returned.
RECURSIVE estimatedEach(_, _)
estimatedEach(room, suits) ==
  IF suits = <<>> THEN room
  ELSE estimatedEach(estimateBidScoreViaMinimax(room, Head(suits)), Tail(suits))

afterChooseBotAction(room) == estimatedEach(room, estimatedSuits(room))

chooseDiscardAction(room, bot) ==
  IF room.game.trump = NoSuit THEN {}
  ELSE IF bot.hand = <<>> THEN {}
  ELSE {[Message("discard") EXCEPT !.cardId = Pick(bot.hand, room.game)]}

\* choosePlayAction that picks among all the cards of the hand.
choosePlayAction_AnyCard(room, bot) ==
  IF bot.hand = <<>> THEN {}
  ELSE {[Message("play-card") EXCEPT !.cardId = bot.hand[Len(bot.hand)]]}

choosePlayAction(room, bot) ==
  LET legalCards == Filter(bot.hand, Range(getLegalPlays(room, bot.id))) IN
  IF legalCards = <<>> THEN {}
  ELSE IF room.game.goingAlonePlayerId # NoPlayer
    THEN {[Message("play-card") EXCEPT !.cardId = legalCards[1]]}
  ELSE {[Message("play-card") EXCEPT !.cardId = Pick(legalCards, room.game)]}

\* The BotActions chooseBotAction can return; empty when it returns null.
chooseBotAction(room, bot) ==
  IF ~hasGame(room) THEN {}
  ELSE IF room.game.phase \in {"bidding-round-1", "bidding-round-2"}
    THEN chooseBidAction(room, bot)
  ELSE IF room.game.phase = "dealer-discard" THEN chooseDiscardAction(room, bot)
  ELSE IF room.game.phase = "playing" THEN choosePlayAction(room, bot)
  ELSE IF room.game.phase = "hand-over" THEN {Message("start-next-hand")}
  ELSE {}

executeBotAction(room, bot, action, k) ==
  CASE action.action = "pass" -> handlePass(room, bot.id, k)
    [] action.action = "order-up" -> handleOrderUp(room, bot.id, action.alone)
    [] action.action = "choose-trump" ->
         handleChooseTrump(room, bot.id, action.suit, action.alone)
    [] action.action = "discard" -> handleDiscard(room, bot.id, action.cardId)
    [] action.action = "play-card" -> handlePlayCard(room, bot.id, action.cardId)
    [] action.action = "start-next-hand" -> handleStartNextHand(room, k)
    [] action.action = "restart-match" -> handleRestartMatch(room, k)
    [] OTHER -> Done(room, 0)

\* ------------------------------------------------------------- scheduler
getBotThinkDelay(room) ==
  IF room.botDifficulty = "easy" THEN 1600
  ELSE IF room.botDifficulty = "medium" THEN 1300
  ELSE 1050

getDisconnectedPlayerThinkDelay == 900

getPostTrickPauseDelay(room) ==
  IF getBotThinkDelay(room) > 2300 THEN getBotThinkDelay(room) ELSE 2300

anyBot(room) == \E i \in 1 .. Len(room.players) : room.players[i].isBot

getAutoActionDelayMs(room) ==
  IF ~hasGame(room) \/ room.game.phase = "game-over" THEN 0
  ELSE IF room.game.phase = "hand-over"
    THEN (IF anyBot(room) THEN 3600 ELSE 0)
  ELSE
    LET ci == getSeatPlayer(room, room.game.turnSeat) IN
    IF ci = 0 THEN 0
    ELSE IF ~(room.players[ci].isBot \/ ~room.players[ci].connected) THEN 0
    ELSE IF /\ room.game.phase = "playing"
            /\ room.game.currentTrick = <<>>
            /\ Len(room.game.completedTricks) > 0
      THEN getPostTrickPauseDelay(room)
    ELSE IF room.players[ci].isBot THEN getBotThinkDelay(room)
    ELSE getDisconnectedPlayerThinkDelay

\* What one call of autoAdvanceOneTurn can do: "acted" is its return value
\* (meaningless when a handler threw), the rest the handler's result.
Acted(res) == [acted |-> TRUE, err |-> res.err, room |-> res.room, infos |-> res.infos]
NotActed(room) == [acted |-> FALSE, err |-> FALSE, room |-> room, infos |-> 0]

\* autoAdvanceOneTurn that plays for a human whether connected or not.
autoAdvanceOneTurn_AnyHuman(room) ==
  IF ~hasGame(room) THEN {NotActed(room)}
  ELSE IF room.game.phase = "game-over" THEN {NotActed(room)}
  ELSE IF room.game.phase = "hand-over" THEN
    (IF ~anyBot(room) THEN {NotActed(room)}
     ELSE {Acted(handleStartNextHand(room, k)) : k \in Deals})
  ELSE
    LET ci == getSeatPlayer(room, room.game.turnSeat) IN
    IF ci = 0 THEN {NotActed(room)}
    ELSE
      LET currentPlayer == room.players[ci] IN
      IF currentPlayer.isBot THEN
        (IF chooseBotAction(room, currentPlayer) = {} THEN {NotActed(room)}
         ELSE {Acted(executeBotAction(afterChooseBotAction(room), currentPlayer,
                                   botAction, k)) :
                 botAction \in chooseBotAction(room, currentPlayer), k \in Deals})
      ELSE IF room.game.phase \in {"bidding-round-1", "bidding-round-2"}
        THEN {Acted(handlePass(room, currentPlayer.id, k)) : k \in Deals}
      ELSE IF room.game.phase = "dealer-discard" THEN
        (IF currentPlayer.hand = <<>> THEN {NotActed(room)}
         ELSE {Acted(handleDiscard(room, currentPlayer.id, currentPlayer.hand[1]))})
      ELSE IF room.game.phase = "playing" THEN
        (IF getLegalPlays(room, currentPlayer.id) = <<>> THEN {NotActed(room)}
         ELSE {Acted(handlePlayCard(room, currentPlayer.id,
                                    getLegalPlays(room, currentPlayer.id)[1]))})
      ELSE {NotActed(room)}

\* autoAdvanceOneTurn that plays the last card of the legal plays for a
\* disconnected human.
autoAdvanceOneTurn_LastLegal(room) ==
  IF ~hasGame(room) THEN {NotActed(room)}
  ELSE IF room.game.phase = "game-over" THEN {NotActed(room)}
  ELSE IF room.game.phase = "hand-over" THEN
    (IF ~anyBot(room) THEN {NotActed(room)}
     ELSE {Acted(handleStartNextHand(room, k)) : k \in Deals})
  ELSE
    LET ci == getSeatPlayer(room, room.game.turnSeat) IN
    IF ci = 0 THEN {NotActed(room)}
    ELSE
      LET currentPlayer == room.players[ci] IN
      IF currentPlayer.isBot THEN
        (IF chooseBotAction(room, currentPlayer) = {} THEN {NotActed(room)}
         ELSE {Acted(executeBotAction(afterChooseBotAction(room), currentPlayer,
                                   botAction, k)) :
                 botAction \in chooseBotAction(room, currentPlayer), k \in Deals})
      ELSE IF currentPlayer.connected THEN {NotActed(room)}
      ELSE IF room.game.phase \in {"bidding-round-1", "bidding-round-2"}
        THEN {Acted(handlePass(room, currentPlayer.id, k)) : k \in Deals}
      ELSE IF room.game.phase = "dealer-discard" THEN
        (IF currentPlayer.hand = <<>> THEN {NotActed(room)}
         ELSE {Acted(handleDiscard(room, currentPlayer.id, currentPlayer.hand[1]))})
      ELSE IF room.game.phase = "playing" THEN
        (IF getLegalPlays(room, currentPlayer.id) = <<>> THEN {NotActed(room)}
         ELSE {Acted(handlePlayCard(room, currentPlayer.id,
                                    getLegalPlays(room, currentPlayer.id)[
                                      Len(getLegalPlays(room, currentPlayer.id))]))})
      ELSE {NotActed(room)}

autoAdvanceOneTurn(room) ==
  IF ~hasGame(room) THEN {NotActed(room)}
  ELSE IF room.game.phase = "game-over" THEN {NotActed(room)}
  ELSE IF room.game.phase = "hand-over" THEN
    (IF ~anyBot(room) THEN {NotActed(room)}
     ELSE {Acted(handleStartNextHand(room, k)) : k \in Deals})
  ELSE
    LET ci == getSeatPlayer(room, room.game.turnSeat) IN
    IF ci = 0 THEN {NotActed(room)}
    ELSE
      LET currentPlayer == room.players[ci] IN
      IF currentPlayer.isBot THEN
        (IF chooseBotAction(room, currentPlayer) = {} THEN {NotActed(room)}
         ELSE {Acted(executeBotAction(afterChooseBotAction(room), currentPlayer,
                                   botAction, k)) :
                 botAction \in chooseBotAction(room, currentPlayer), k \in Deals})
      ELSE IF currentPlayer.connected THEN {NotActed(room)}
      ELSE IF room.game.phase \in {"bidding-round-1", "bidding-round-2"}
        THEN {Acted(handlePass(room, currentPlayer.id, k)) : k \in Deals}
      ELSE IF room.game.phase = "dealer-discard" THEN
        (IF currentPlayer.hand = <<>> THEN {NotActed(room)}
         ELSE {Acted(handleDiscard(room, currentPlayer.id, currentPlayer.hand[1]))})
      ELSE IF room.game.phase = "playing" THEN
        (IF getLegalPlays(room, currentPlayer.id) = <<>> THEN {NotActed(room)}
         ELSE {Acted(handlePlayCard(room, currentPlayer.id,
                                    getLegalPlays(room, currentPlayer.id)[1]))})
      ELSE {NotActed(room)}

\* ----------------------------------------------------------------- state
VARIABLES
  room,                 \* this.rooms.get(roomName): the EuchreRoom
  sessions,             \* this.sessions: the player ids with a live socket
  autoAdvanceInFlight,  \* roomName \in this.autoAdvanceInFlight
  loops,                \* the runAutoAdvance calls that have not returned
  pending,              \* handlers waiting at "await this.persistRooms()"
  persisted,            \* the room as last written by persistRooms
  outbox,               \* the frames sent by the latest step
  response,             \* the HTTP response of the latest step
  clients               \* the client at the far end of each session's
                        \* socket, and the clients that created the room
                        \* or presented its creator token

vars ==
  <<room, sessions, autoAdvanceInFlight, loops, pending, persisted, outbox,
    response, clients>>

\* No HTTP request answered by the step; the sockets held by clients of no
\* account.
NoResponse == [status |-> 0, rooms |-> <<>>]
NoClients == [socket |-> [id \in 1 .. ROOM_SIZE |-> NoClient], holders |-> {}]

\* sendInfo / broadcastRoom / the error reply: one frame per receiving socket.
InfoFrames(infos) ==
  IF infos = 0 THEN {} ELSE {[to |-> id, type |-> "info"] : id \in sessions}
StateFrames(to) ==
  IF room = NoRoom THEN {}
  ELSE {[to |-> id, type |-> "state", state |-> buildClientState(room, id)] : id \in to}
ErrorFrame(id) == {[to |-> id, type |-> "error"]}

\* No hand is dealt past MaxHandNumber.
WithinHands(r) == IF hasGame(r) THEN r.game.handNumber <= MaxHandNumber ELSE TRUE

\* queueAutoAdvance that never looks at the flag.
queueStartsPass_Always(inFlight) == TRUE

\* queueAutoAdvance starts a pass unless one is in flight for the room.
queueStartsPass(inFlight) == ~inFlight

\* One pass of runAutoAdvance from the top of iteration index: it returns
\* (and the finally clause clears the flag) when the iteration cap is
\* reached, when autoAdvanceOneTurn does nothing or throws; it waits in
\* sleep when a delay is due, and in persistRooms after it acted.  others
\* are the passes that stay as they are, frames what the step already sent.
PassActs(others, index, frames) ==
  \E o \in autoAdvanceOneTurn(room) :
    /\ WithinHands(o.room)
    /\ room' = o.room
    /\ IF o.acted /\ ~o.err
       THEN /\ persisted' = o.room
            /\ loops' = Append(others, [pc |-> "persist", index |-> index])
            /\ autoAdvanceInFlight' = TRUE
            /\ outbox' = frames \cup InfoFrames(o.infos)
       ELSE /\ persisted' = persisted
            /\ loops' = others
            /\ autoAdvanceInFlight' = FALSE
            /\ outbox' = frames

PassFrom(others, index, frames) ==
  IF index >= MAX_AUTO_ITERATIONS \/ room = NoRoom
  THEN /\ loops' = others
       /\ autoAdvanceInFlight' = FALSE
       /\ outbox' = frames
       /\ UNCHANGED <<room, persisted>>
  ELSE IF getAutoActionDelayMs(room) > 0
  THEN /\ loops' = Append(others, [pc |-> "sleep", index |-> index])
       /\ autoAdvanceInFlight' = TRUE
       /\ outbox' = frames
       /\ UNCHANGED <<room, persisted>>
  ELSE PassActs(others, index, frames)

\* ---------------------------------------------------------- client path
\* webSocketMessage for an action of the player bound to the socket: on a
\* throw the sender gets an error frame; otherwise the rooms are persisted
\* and the handler waits for the write before it broadcasts.
WebSocketMessage(id, message, k, rnd) ==
  /\ id \in sessions
  /\ pending < MaxPending
  /\ LET res == handleAction(room, id, message, k, rnd) IN
     /\ WithinHands(res.room)
     /\ room' = res.room
     /\ IF res.err
        THEN /\ outbox' = ErrorFrame(id)
             /\ UNCHANGED <<persisted, pending>>
        ELSE /\ outbox' = InfoFrames(res.infos)
             /\ persisted' = res.room
             /\ pending' = pending + 1
  /\ response' = NoResponse
  /\ UNCHANGED <<sessions, autoAdvanceInFlight, loops, clients>>

PlayerIds == 1 .. ROOM_SIZE

\* The card ids a client sends: a card it may play (the one Pick names), a
\* card of its hand it may not play, a card it does not hold, none.
CardInputs(id) ==
  LET pi == getPlayerById(room, id)
      hand == IF pi = 0 THEN <<>> ELSE room.players[pi].hand
      legal == getLegalPlays(room, id)
      barred == Filter(hand, Range(hand) \ Range(legal))
      foreign == Cards \ Range(hand)
  IN (IF legal = <<>> THEN {} ELSE {Pick(legal, room.game)})
       \cup Range(Prefix(barred, 1))
       \cup {CHOOSE c \in foreign : \A d \in foreign : c <= d} \cup {NoCard}

\* The inputs that only matter in some phase are drawn in that phase alone:
\* the shuffle where the handler can deal, the random dealer in the lobby,
\* the alone flag where a bid can be accepted.
DealsIn(phases) == IF room.game.phase \in phases THEN Deals ELSE {1}
AloneIn(phase) == IF room.game.phase = phase THEN BOOLEAN ELSE {FALSE}

Pass(id) ==
  \E k \in DealsIn({"bidding-round-2"}) : WebSocketMessage(id, Message("pass"), k, 0)

OrderUp(id) ==
  \E a \in AloneIn("bidding-round-1") :
    WebSocketMessage(id, [Message("order-up") EXCEPT !.alone = a], 1, 0)

ChooseTrump(id) ==
  \E suit \in SUITS \cup {NoSuit}, a \in AloneIn("bidding-round-2") :
    WebSocketMessage(id, [Message("choose-trump") EXCEPT !.suit = suit, !.alone = a],
                     1, 0)

Discard(id) ==
  \E c \in CardInputs(id) :
    WebSocketMessage(id, [Message("discard") EXCEPT !.cardId = c], 1, 0)

PlayCard(id) ==
  \E c \in CardInputs(id) :
    WebSocketMessage(id, [Message("play-card") EXCEPT !.cardId = c], 1, 0)

StartNextHand(id) ==
  \E k \in DealsIn({"hand-over"}) :
    WebSocketMessage(id, Message("start-next-hand"), k, 0)

RestartMatch(id) ==
  \E k \in DealsIn({"game-over"}) :
    WebSocketMessage(id, Message("restart-match"), k, 0)

AddBot(id) == WebSocketMessage(id, Message("add-bot"), 1, 0)

StartRoom(id) ==
  \E k \in DealsIn({"none"}), rnd \in (IF hasGame(room) THEN {0} ELSE Seats) :
    WebSocketMessage(id, Message("start-room"), k, rnd)

\* set-seat names the sender's neighbour and a seat, or carries neither.
LobbyCommand(id) ==
  \/ AddBot(id)
  \/ WebSocketMessage(id, Message("remove-bot"), 1, 0)
  \/ \E seat \in {0, ROOM_SIZE - 1, NoSeat} :
       WebSocketMessage(id, [Message("set-seat") EXCEPT
                               !.targetPlayerId = IF seat = NoSeat THEN NoPlayer
                                                  ELSE (id % ROOM_SIZE) + 1,
                               !.seatIndex = seat], 1, 0)
  \/ \E d \in {"easy", ""} :
       WebSocketMessage(id, [Message("set-bot-difficulty") EXCEPT !.botDifficulty = d],
                        1, 0)
  \/ StartRoom(id)

\* The rest of a handler once persistRooms resolved: broadcastRoom, then
\* queueAutoAdvance.
HandlerResumes ==
  /\ pending > 0
  /\ pending' = pending - 1
  /\ response' = NoResponse
  /\ UNCHANGED <<sessions, clients>>
  /\ IF queueStartsPass(autoAdvanceInFlight)
     THEN PassFrom(loops, 0, StateFrames(sessions))
     ELSE /\ outbox' = StateFrames(sessions)
          /\ UNCHANGED <<room, persisted, autoAdvanceInFlight, loops>>

\* webSocketClose that marks the player and does not write the rooms.
WebSocketClose_NoWrite(id) ==
  /\ id \in sessions
  /\ sessions' = sessions \ {id}
  /\ outbox' = {}
  /\ response' = NoResponse
  /\ UNCHANGED <<autoAdvanceInFlight, loops, clients, persisted>>
  /\ IF room = NoRoom
     THEN UNCHANGED <<room, pending>>
     ELSE /\ pending < MaxPending
          /\ LET pi == getPlayerById(room, id)
             IN room' = IF pi = 0 THEN room
                        ELSE [room EXCEPT !.players[pi].connected = FALSE]
          /\ pending' = pending + 1

\* webSocketClose: the session goes, the player is marked disconnected, the
\* rooms are persisted; with the room gone only the session goes.
WebSocketClose(id) ==
  /\ id \in sessions
  /\ sessions' = sessions \ {id}
  /\ outbox' = {}
  /\ response' = NoResponse
  /\ UNCHANGED <<autoAdvanceInFlight, loops, clients>>
  /\ IF room = NoRoom
     THEN UNCHANGED <<room, persisted, pending>>
     ELSE /\ pending < MaxPending
          /\ LET pi == getPlayerById(room, id)
                 closed == IF pi = 0 THEN room
                           ELSE [room EXCEPT !.players[pi].connected = FALSE]
             IN room' = closed /\ persisted' = closed
          /\ pending' = pending + 1

\* connectToRoom under the name of a seated, disconnected, non-bot player
\* (create = 0, password right): the player is marked connected and a new
\* session is bound to its id.
Reconnect(id) ==
  /\ pending < MaxPending
  /\ LET pi == getPlayerById(room, id) IN
     /\ pi # 0
     /\ ~room.players[pi].isBot
     /\ ~room.players[pi].connected
     /\ room' = [room EXCEPT !.players[pi].connected = TRUE]
     /\ persisted' = room'
  /\ sessions' = sessions \cup {id}
  /\ pending' = pending + 1
  /\ outbox' = {}
  /\ response' = NoResponse
  /\ UNCHANGED <<autoAdvanceInFlight, loops, clients>>

\* ------------------------------------------------------ scheduler steps
Others(i) == SubSeq(loops, 1, i - 1) \o SubSeq(loops, i + 1, Len(loops))

\* queueAutoAdvance that starts a pass without looking at the flag.
queueAutoAdvance_NoFlag(r, inFlight, passes) ==
  IF r = NoRoom
  THEN {[room |-> r, inFlight |-> FALSE, loops |-> passes]}
  ELSE IF getAutoActionDelayMs(r) > 0
  THEN {[room |-> r, inFlight |-> TRUE,
         loops |-> Append(passes, [pc |-> "sleep", index |-> 0])]}
  ELSE {IF o.acted /\ ~o.err
        THEN [room |-> o.room, inFlight |-> TRUE,
              loops |-> Append(passes, [pc |-> "persist", index |-> 0])]
        ELSE [room |-> o.room, inFlight |-> FALSE, loops |-> passes] :
          o \in autoAdvanceOneTurn(r)}

\* queueAutoAdvance as a function: the room, the flag and the passes it can
\* leave when called for room r with the flag inFlight and the passes under
\* way.  It returns at once when the flag is set; otherwise runAutoAdvance
\* runs up to its first await: it returns when the room is missing or
\* autoAdvanceOneTurn does nothing, sleeps when a delay is due and waits
\* for its write when it acted.
queueAutoAdvance(r, inFlight, passes) ==
  IF ~queueStartsPass(inFlight)
  THEN {[room |-> r, inFlight |-> inFlight, loops |-> passes]}
  ELSE IF r = NoRoom
  THEN {[room |-> r, inFlight |-> FALSE, loops |-> passes]}
  ELSE IF getAutoActionDelayMs(r) > 0
  THEN {[room |-> r, inFlight |-> TRUE,
         loops |-> Append(passes, [pc |-> "sleep", index |-> 0])]}
  ELSE {IF o.acted /\ ~o.err
        THEN [room |-> o.room, inFlight |-> TRUE,
              loops |-> Append(passes, [pc |-> "persist", index |-> 0])]
        ELSE [room |-> o.room, inFlight |-> FALSE, loops |-> passes] :
          o \in autoAdvanceOneTurn(r)}

\* The sleep of pass i ends: autoAdvanceOneTurn runs.
AutoWakes(i) ==
  /\ loops[i].pc = "sleep"
  /\ PassActs(Others(i), loops[i].index, {})
  /\ response' = NoResponse
  /\ UNCHANGED <<sessions, pending, clients>>

\* The persistRooms of pass i resolved: broadcast, then the next iteration
\* unless the match is over.
AutoPersisted(i) ==
  /\ loops[i].pc = "persist"
  /\ response' = NoResponse
  /\ UNCHANGED <<sessions, pending, clients>>
  /\ IF ~hasGame(room) \/ room.game.phase = "game-over"
     THEN /\ loops' = Others(i)
          /\ autoAdvanceInFlight' = FALSE
          /\ outbox' = StateFrames(sessions)
          /\ UNCHANGED <<room, persisted>>
     ELSE PassFrom(Others(i), loops[i].index + 1, StateFrames(sessions))

\* ------------------------------------------------------- initial states
\* The room as connectToRoom and handleAddBot build it: player i joined
\* i-th and took the lowest free seat; the first one created the room.
LobbyRoom(isBot) ==
  [status |-> "waiting",
   password |-> NoPassword,
   creatorToken |-> "minted",
   creatorPlayerId |-> 1,
   botDifficulty |-> "medium",
   botCount |-> Cardinality({i \in 1 .. ROOM_SIZE : isBot[i]}),
   score |-> [team0 |-> 0, team1 |-> 0],
   players |-> [i \in 1 .. ROOM_SIZE |->
                  [id |-> i,
                   name |-> IF isBot[i]
                            THEN BOT_NAMES[Cardinality({j \in 1 .. i : isBot[j]})]
                            ELSE <<"P1", "P2", "P3", "P4">>[i],
                   seatIndex |-> i - 1,
                   connected |-> TRUE,
                   isBot |-> isBot[i],
                   hand |-> <<>>]],
   game |-> NoGame]

Humans(r) == {r.players[i].id : i \in {j \in 1 .. Len(r.players) : ~r.players[j].isBot}}

\* The scores of a match under way, by the dealer of the hand that starts:
\* a match not yet scored and a match one hand from its end.
ScoresInPlay ==
  <<[team0 |-> 0, team1 |-> 0], [team0 |-> 9, team1 |-> 8],
    [team0 |-> 6, team1 |-> 9], [team0 |-> 8, team1 |-> 7]>>

HandStart(isBot, dealer, k, score, handNumber) ==
  LET r == startNewHand(LobbyRoom(isBot), dealer, FALSE, k, dealer)
  IN [r EXCEPT !.score = score, !.game.handNumber = handNumber]

InitWith(r, waiting) ==
  /\ room = r
  /\ sessions = Humans(r)
  /\ autoAdvanceInFlight = FALSE
  /\ loops = <<>>
  /\ pending = waiting
  /\ persisted = r
  /\ outbox = {}
  /\ response = NoResponse
  /\ clients = NoClients

AllHuman == [i \in 1 .. ROOM_SIZE |-> FALSE]
CreatorAndBots == [i \in 1 .. ROOM_SIZE |-> i > 1]

\* Four connected humans at the start of a hand late in a match: the last
\* hand the bound lets through with no score yet, or the hand before it
\* with the match about to end.
InitGame ==
  \E dealer \in {0, 1}, k \in Deals :
    InitWith(HandStart(AllHuman, dealer, k, ScoresInPlay[dealer + 1],
                       MaxHandNumber - dealer), 0)

\* The clients that send: the player on turn and the next one, who is not.
Senders ==
  {room.players[i].id : i \in {j \in 1 .. Len(room.players) :
     room.players[j].seatIndex
       \in {room.game.turnSeat, nextSeat(room.game.turnSeat)}}}

NextGame ==
  \E id \in Senders :
    \/ Pass(id)
    \/ OrderUp(id)
    \/ ChooseTrump(id)
    \/ Discard(id)
    \/ PlayCard(id)
    \/ StartNextHand(id)
    \/ RestartMatch(id)
    \/ LobbyCommand(id)
    \/ HandlerResumes

SpecGame == InitGame /\ [][NextGame]_vars

\* ------------------------------------------------- a match left to bots
\* The creator's socket closes as the bidding of the first hand opens.
CreatorLeaves ==
  /\ hasGame(room)
  /\ room.game.handNumber = 1
  /\ room.game.phase = "bidding-round-1"
  /\ WebSocketClose(room.creatorPlayerId)

\* In this specification a handler's write resolves before a think delay
\* (900 ms or more) runs out.
\* The creator alone in the room it has just created.
CreatorAlone == [LobbyRoom(AllHuman) EXCEPT !.players = SubSeq(@, 1, 1)]

InitMatch == InitWith(CreatorAlone, 0)

NextMatch ==
  \/ AddBot(room.creatorPlayerId)
  \/ StartRoom(room.creatorPlayerId)
  \/ CreatorLeaves
  \/ HandlerResumes
  \/ \E i \in 1 .. Len(loops) : (pending = 0 /\ AutoWakes(i)) \/ AutoPersisted(i)

SpecMatch == InitMatch /\ [][NextMatch]_vars

\* --------------------------------------- the scheduler beside a client
\* The creator and three bots at the start of a hand, the handler that
\* dealt it still waiting for its write.
InitAuto ==
  \E dealer \in {0, ROOM_SIZE - 1}, k \in Deals :
    InitWith(HandStart(CreatorAndBots, dealer, k, ScoresInPlay[dealer + 1],
                       MaxHandNumber), 1)

\* The creator passes in the bidding and plays its cards when on turn,
\* leaves and comes back at any moment; the bots do the bidding.
NextAuto ==
  \/ Pass(room.creatorPlayerId)
  \/ Discard(room.creatorPlayerId)
  \/ PlayCard(room.creatorPlayerId)
  \/ WebSocketClose(room.creatorPlayerId)
  \/ Reconnect(room.creatorPlayerId)
  \/ HandlerResumes
  \/ \E i \in 1 .. Len(loops) : AutoWakes(i) \/ AutoPersisted(i)

SpecAuto == InitAuto /\ [][NextAuto]_vars

\* ----------------------------------- two clients and two bots at a table
\* Players 1 and 3 are connected humans, 2 and 4 bots, at the start of a
\* hand late in a match: the last hand the bound lets through with no
\* score yet, or the hand before it at 8-7, which a hand can leave short of
\* the target or past it.  The handler that dealt it waits for its write.
HumansAndBots == [i \in 1 .. ROOM_SIZE |-> i % 2 = 0]

InitTable ==
  \E dealer \in {0, 1}, k \in Deals :
    InitWith(HandStart(HumansAndBots, dealer, k,
                       ScoresInPlay[(ROOM_SIZE - 1) * dealer + 1],
                       MaxHandNumber - dealer), 1)

NextTable ==
  \/ \E id \in Senders :
       \/ Pass(id)
       \/ OrderUp(id)
       \/ ChooseTrump(id)
       \/ Discard(id)
       \/ PlayCard(id)
       \/ StartNextHand(id)
       \/ RestartMatch(id)
  \/ HandlerResumes
  \/ \E i \in 1 .. Len(loops) : AutoWakes(i) \/ AutoPersisted(i)

SpecTable == InitTable /\ [][NextTable]_vars

\* ------------------------------------------------------------ the lobby
\* connectToRoom under a name no player of the room has (create = 0,
\* password right): the player takes the lowest free seat and a session is
\* bound to it; a full room answers 409 and nothing changes.  With the
\* room's creator token the newcomer becomes the creator.
HumanNames == <<"P1", "P2", "P3", "P4">>

Connect(withCreatorToken) ==
  /\ pending < MaxPending
  /\ Len(room.players) < ROOM_SIZE
  /\ LET occupiedSeats == {room.players[i].seatIndex : i \in 1 .. Len(room.players)}
         freeSeats == Seats \ occupiedSeats
         playerId == freshPlayerId(room)
     IN /\ freeSeats # {}
        /\ room' = [room EXCEPT
                      !.players = Append(@,
                         [id |-> playerId,
                          name |-> HumanNames[playerId],
                          seatIndex |-> CHOOSE seat \in freeSeats :
                                          \A other \in freeSeats : seat <= other,
                          connected |-> TRUE,
                          isBot |-> FALSE,
                          hand |-> <<>>]),
                      !.creatorPlayerId = IF withCreatorToken THEN playerId ELSE @]
        /\ sessions' = sessions \cup {playerId}
  /\ persisted' = room'
  /\ pending' = pending + 1
  /\ outbox' = {}
  /\ response' = NoResponse
  /\ UNCHANGED <<autoAdvanceInFlight, loops, clients>>

RemoveBot(id) == WebSocketMessage(id, Message("remove-bot"), 1, 0)

\* set-seat for any player id, seated or not, and any seat of the table; or
\* without a target, without a seat, or with a seat index out of range.
SetSeatInputs ==
  (PlayerIds \X Seats)
    \cup {<<NoPlayer, 0>>, <<1, NoSeat>>, <<1, ROOM_SIZE>>}

SetSeat(id) ==
  \E input \in SetSeatInputs :
    WebSocketMessage(id, [Message("set-seat") EXCEPT !.targetPlayerId = input[1],
                                                     !.seatIndex = input[2]], 1, 0)

\* The creator alone in the room it has just created; players join (the
\* second to arrive may hold the creator token), the second one to hold a
\* seat leaves and comes back, the creator sends the lobby commands and the
\* player whose id follows the creator's tries set-seat as well.
InitLobby == InitWith(CreatorAlone, 0)

LobbySenders == {room.creatorPlayerId, (room.creatorPlayerId % ROOM_SIZE) + 1}

NextLobby ==
  \/ \E withCreatorToken \in (IF Len(room.players) = 1 THEN BOOLEAN ELSE {FALSE}) :
       Connect(withCreatorToken)
  \/ AddBot(room.creatorPlayerId)
  \/ RemoveBot(room.creatorPlayerId)
  \/ StartRoom(room.creatorPlayerId)
  \/ \E id \in LobbySenders : SetSeat(id)
  \/ WebSocketClose(2)
  \/ Reconnect(2)
  \/ HandlerResumes

SpecLobby == InitLobby /\ [][NextLobby]_vars

\* ------------------------------------------------- the connection path
\* A /websocket request of a client: connectToRoom; once accepted the
\* handler waits for its write before it broadcasts.  The client that
\* creates the room, or brings its token, is one that holds the token.
ConnectToRoom(client, request) ==
  LET res == connectToRoom(room, sessions, request) IN
  /\ response' = [status |-> res.status, rooms |-> <<>>]
  /\ room' = res.room
  /\ sessions' = res.sessions
  /\ outbox' = {}
  /\ UNCHANGED <<autoAdvanceInFlight, loops>>
  /\ IF res.status = 101
     THEN /\ pending < MaxPending
          /\ persisted' = res.room
          /\ pending' = pending + 1
          /\ clients' =
               [socket |-> [clients.socket EXCEPT ![res.playerId] = client],
                holders |-> IF room = NoRoom THEN {client}
                            ELSE IF request.creatorToken = room.creatorToken
                            THEN clients.holders \cup {client}
                            ELSE clients.holders]
     ELSE UNCHANGED <<persisted, pending, clients>>

\* The constructor of a new instance of the object: the sessions are the
\* sockets that survived (ctx.getWebSockets()), the rooms are read back from
\* storage, and nothing of the handlers and passes of the old instance is
\* left.
Constructor(survivors) ==
  /\ sessions' = survivors
  /\ room' = restoreState(persisted, survivors)
  /\ autoAdvanceInFlight' = FALSE
  /\ loops' = <<>>
  /\ pending' = 0
  /\ outbox' = {}
  /\ response' = NoResponse
  /\ UNCHANGED <<persisted, clients>>

\* The object is started anew after its sockets were dropped with it.
ColdStart == sessions # {} /\ Constructor({})

\* The idle object was evicted from memory and an event wakes it: the
\* hibernated sockets are still there.
WakeUp == loops = <<>> /\ pending = 0 /\ Constructor(sessions)

\* ------------------------------- seats kept across closes and restarts
\* The creator and three bots at the start of the last hand the bound lets
\* through; the handler that dealt it waits for its write.  The creator
\* passes, discards and plays when on turn; its socket closes; a client
\* asks for a seat under the creator's name, in either case; the object
\* restarts.
InitSeats ==
  \E k \in Deals :
    InitWith(HandStart(CreatorAndBots, 0, k, ScoresInPlay[1], MaxHandNumber), 1)

SeatNames == {"P1", "p1"}

NextSeats ==
  \/ \E id \in Senders : Pass(id) \/ Discard(id) \/ PlayCard(id)
  \/ \E id \in Humans(room) : WebSocketClose(id)
  \/ \E name \in SeatNames :
       ConnectToRoom(1, Request(name, NoPassword, FALSE, NoToken))
  \/ ColdStart
  \/ WakeUp
  \/ HandlerResumes
  \/ \E i \in 1 .. Len(loops) : AutoWakes(i) \/ AutoPersisted(i)

SpecSeats == InitSeats /\ [][NextSeats]_vars

\* DELETE /rooms/<room>: deleteRoom takes the room out of this.rooms, closes
\* the sockets of its sessions with 1001 and persists the rooms.
DeleteRoom(creatorToken) ==
  LET res == deleteRoom(room, creatorToken) IN
  /\ response' = [status |-> res.status, rooms |-> <<>>]
  /\ room' = res.room
  /\ IF res.status = 200
     THEN /\ persisted' = res.room
          /\ outbox' = {[to |-> id, type |-> "close", code |-> 1001] : id \in sessions}
     ELSE /\ outbox' = {}
          /\ UNCHANGED persisted
  /\ UNCHANGED <<sessions, autoAdvanceInFlight, loops, pending, clients>>

\* GET /rooms.
ListRooms ==
  /\ response' = [status |-> 200, rooms |-> listRooms(room)]
  /\ outbox' = {}
  /\ UNCHANGED <<room, sessions, autoAdvanceInFlight, loops, pending, persisted,
                 clients>>

\* ------------------------------------------------------ the room's door
\* No room yet.  Client 1 asks for a seat as P1 and client 2 as P2, as p1 or
\* under the first bot's name, with create = 1 or without, with the
\* password "secret" or none; a request brings no creator token, one the
\* client made up, or the room's token if the client holds it.  The creator
\* adds bots; sockets close; a client asks for the list of rooms or for the
\* room to be deleted.  The room is created once, by client 1.
InitDoor ==
  /\ room = NoRoom
  /\ sessions = {}
  /\ autoAdvanceInFlight = FALSE
  /\ loops = <<>>
  /\ pending = 0
  /\ persisted = NoRoom
  /\ outbox = {}
  /\ response = NoResponse
  /\ clients = NoClients

Clients == {1, 2}

NamesOf(client) == IF client = 1 THEN {"P1"} ELSE {"P2", "p1", "atlas bot"}

Passwords == {NoPassword, "secret"}

TokensOf(client) ==
  IF room = NoRoom THEN {NoToken, "chosen"}
  ELSE {NoToken, "guess"}
         \cup (IF client \in clients.holders THEN {room.creatorToken} ELSE {})

NextDoor ==
  \/ \E client \in Clients :
       \E name \in NamesOf(client), password \in Passwords, create \in BOOLEAN,
          creatorToken \in TokensOf(client) :
         /\ (room = NoRoom /\ create) => (client = 1 /\ clients.holders = {})
         /\ ConnectToRoom(client, Request(name, password, create, creatorToken))
  \/ /\ room # NoRoom
     /\ AddBot(room.creatorPlayerId)
  \/ \E id \in sessions : WebSocketClose(id)
  \/ \E client \in Clients :
       \E creatorToken \in TokensOf(client) : DeleteRoom(creatorToken)
  \/ ListRooms
  \/ HandlerResumes

SpecDoor == InitDoor /\ [][NextDoor]_vars

\* ------------------------------------ a room removed under a waiting pass
\* The room object a pass of runAutoAdvance holds: "const room =
\* this.rooms.get(roomName)" is read at the top of an iteration, before the
\* sleep, and used after it.  While the room is in this.rooms the pass sees
\* the room as it is; once the room is deleted from the map the pass keeps
\* the object as it was at that moment (held).
Detached(passes, r) ==
  [i \in 1 .. Len(passes) |->
     IF "held" \in DOMAIN passes[i] THEN passes[i]
     ELSE [pc |-> passes[i].pc, index |-> passes[i].index, held |-> r]]

isDetached(pass) == "held" \in DOMAIN pass

\* DELETE /rooms/<room> with the room's token while passes may be under
\* way: deleteRoom, and the passes keep the object.
DeleteRoomHeld ==
  /\ room # NoRoom
  /\ deleteRoom(room, room.creatorToken).status = 200
  /\ room' = NoRoom
  /\ persisted' = NoRoom
  /\ loops' = Detached(loops, room)
  /\ outbox' = {[to |-> id, type |-> "close", code |-> 1001] : id \in sessions}
  /\ response' = [status |-> 200, rooms |-> <<>>]
  /\ UNCHANGED <<sessions, autoAdvanceInFlight, pending, clients>>

\* GET /rooms when the room is an hour old: pruneExpiredRooms deletes it,
\* closes its sockets with 1001 and persists; the list is empty.
PruneExpiredRooms ==
  /\ room # NoRoom
  /\ room' = NoRoom
  /\ persisted' = NoRoom
  /\ loops' = Detached(loops, room)
  /\ outbox' = {[to |-> id, type |-> "close", code |-> 1001] : id \in sessions}
  /\ response' = [status |-> 200, rooms |-> listRooms(NoRoom)]
  /\ UNCHANGED <<sessions, autoAdvanceInFlight, pending, clients>>

\* The sleep of a pass that holds a removed room ends: autoAdvanceOneTurn
\* runs on the object held.  What sendInfo(room.name, ...) sends goes to the
\* sessions bound to the room's name.  A socket the removal has closed and
\* whose close event has not arrived yet is still among them: send() on it
\* either throws, which ends the pass, or is dropped.
AutoWakesHeld(i) ==
  /\ isDetached(loops[i])
  /\ loops[i].pc = "sleep"
  /\ response' = NoResponse
  /\ UNCHANGED <<room, sessions, pending, clients>>
  /\ \E o \in autoAdvanceOneTurn(loops[i].held) :
       /\ WithinHands(o.room)
       /\ \/ /\ ~o.acted \/ o.err
             /\ loops' = Others(i)
             /\ autoAdvanceInFlight' = FALSE
             /\ outbox' = {}
             /\ UNCHANGED persisted
          \/ /\ o.acted /\ ~o.err
             /\ o.infos > 0 /\ room = NoRoom /\ sessions # {}
             /\ loops' = Others(i)
             /\ autoAdvanceInFlight' = FALSE
             /\ outbox' = {}
             /\ UNCHANGED persisted
          \/ /\ o.acted /\ ~o.err
             /\ loops' = Append(Others(i), [pc |-> "persist",
                                            index |-> loops[i].index,
                                            held |-> o.room])
             /\ autoAdvanceInFlight' = TRUE
             /\ outbox' = IF room = NoRoom THEN {} ELSE InfoFrames(o.infos)
             /\ persisted' = room

\* The persistRooms of a pass that holds a removed room resolved:
\* broadcastRoom(roomName) sends the state of the room the name has now, if
\* any; the phase is read from the object held, and the next iteration
\* looks the name up again.
AutoPersistedHeld(i) ==
  /\ isDetached(loops[i])
  /\ loops[i].pc = "persist"
  /\ response' = NoResponse
  /\ UNCHANGED <<sessions, pending, clients>>
  /\ IF ~hasGame(loops[i].held) \/ loops[i].held.game.phase = "game-over"
     THEN /\ loops' = Others(i)
          /\ autoAdvanceInFlight' = FALSE
          /\ outbox' = StateFrames(sessions)
          /\ UNCHANGED <<room, persisted>>
     ELSE PassFrom(Others(i), loops[i].index + 1, StateFrames(sessions))

\* The creator and three bots at the start of a hand, the handler that
\* dealt it waiting for its write.  The creator passes when on turn and the
\* scheduler plays for the bots; the room is deleted by its creator or
\* reaped; the close events of its sockets arrive; then a client creates a
\* room under the same name.
NextRemoval ==
  \/ /\ room # NoRoom /\ hasGame(room)
     /\ Pass(room.creatorPlayerId)
  \/ HandlerResumes
  \/ \E i \in 1 .. Len(loops) :
       /\ room # NoRoom /\ ~isDetached(loops[i])
       /\ AutoWakes(i) \/ AutoPersisted(i)
  \/ DeleteRoomHeld
  \/ PruneExpiredRooms
  \/ \E id \in sessions : room = NoRoom /\ WebSocketClose(id)
  \/ /\ room = NoRoom /\ sessions = {}
     /\ ConnectToRoom(1, Request("P1", NoPassword, TRUE, NoToken))
  \/ \E i \in 1 .. Len(loops) : AutoWakesHeld(i) \/ AutoPersistedHeld(i)

SpecRemoval == InitAuto /\ [][NextRemoval]_vars

\* ============================================================ properties
\* The rules as the specification words them, stated apart from the code's
\* helpers so that the two can be compared.

\* The suit a card counts as: the jack of the trump's colour partner (the
\* left bower) counts as trump.
LedSuit(card, trump) ==
  IF card % RANK_COUNT = RANK_J /\ card \div RANK_COUNT = 3 - trump
  THEN trump ELSE card \div RANK_COUNT

\* The cards of a hand that may be played to a trick.
MayPlay(hand, trick, trump) ==
  LET follow == {c \in Range(hand) :
                   LedSuit(c, trump) = LedSuit(trick[1].card, trump)}
  IN IF trick = <<>> \/ follow = {} THEN Range(hand) ELSE follow

\* Right bower 100, left bower 99, other trump A..9 = 98..94, led-suit
\* non-trump A..9 = 60..55, off-suit 0.
Strength(card, trump, led) ==
  LET rank == card % RANK_COUNT
      suit == card \div RANK_COUNT
  IN IF rank = RANK_J /\ suit = trump THEN 100
     ELSE IF rank = RANK_J /\ suit = 3 - trump THEN 99
     ELSE IF suit = trump THEN 94 + (IF rank < RANK_J THEN rank ELSE rank - 1)
     ELSE IF suit = led THEN 55 + rank
     ELSE 0

SeatOf(r, playerId) == r.players[getPlayerById(r, playerId)].seatIndex

HandEnded(r) == hasGame(r) /\ r.game.phase \in {"hand-over", "game-over"}

\* C1: in the playing phase the legal-play set of the seat on turn is its
\* whole hand when the trick is empty, and otherwise the cards of its hand
\* whose effective suit is the led one, or the whole hand when it holds
\* none; a play is accepted only for a card of that set.
C1_LegalPlays ==
  /\ [](room.game.phase = "playing" =>
          LET ci == getSeatPlayer(room, room.game.turnSeat)
              hand == room.players[ci].hand
          IN Range(getLegalPlays(room, room.players[ci].id))
               = MayPlay(hand, room.game.currentTrick, room.game.trump))
  /\ [][room.game.phase = "playing" =>
          LET ci == getSeatPlayer(room, room.game.turnSeat)
              hand == room.players[ci].hand
          IN Len(room'.players[ci].hand) < Len(hand)
               => Range(hand) \ Range(room'.players[ci].hand)
                    \subseteq MayPlay(hand, room.game.currentTrick, room.game.trump)
       ]_vars

\* A completed trick in which one play followed the led suit and another,
\* from a hand void in it, did not.
C1_Witness ==
  /\ hasGame(room)
  /\ \E i \in 1 .. Len(room.game.completedTricks) :
       LET cards == room.game.completedTricks[i].cards
           led == LedSuit(cards[1].card, room.game.trump)
       IN \E a, b \in 2 .. Len(cards) :
            /\ LedSuit(cards[a].card, room.game.trump) = led
            /\ LedSuit(cards[b].card, room.game.trump) # led

\* C2: every completed trick has four plays (three in a loner hand), its
\* winnerSeat is the seat that played the one card of highest strength
\* for the trump and the led effective suit, and while the hand goes on
\* the winner of the last trick leads the next.
C2_TrickWinner ==
  hasGame(room) =>
    \A i \in 1 .. Len(room.game.completedTricks) :
      LET T == room.game.completedTricks[i]
          trump == room.game.trump
          S(j) == Strength(T.cards[j].card, trump, LedSuit(T.cards[1].card, trump))
      IN /\ Len(T.cards) = IF room.game.goingAlonePlayerId = NoPlayer THEN 4 ELSE 3
         /\ \E w \in 1 .. Len(T.cards) :
              /\ \A j \in 1 .. Len(T.cards) : j # w => S(j) < S(w)
              /\ T.winnerSeat = SeatOf(room, T.cards[w].playerId)
         /\ (i = Len(room.game.completedTricks) /\ room.game.phase = "playing")
              => /\ room.game.currentTrick = <<>> => room.game.turnSeat = T.winnerSeat
                 /\ i <= LAST_TRICK_INDEX

\* A trick led in a plain suit and won by a later seat with a trump, that
\* seat now being on turn for the next trick.
C2_Witness ==
  /\ hasGame(room) /\ room.game.phase = "playing"
  /\ room.game.currentTrick = <<>> /\ room.game.completedTricks # <<>>
  /\ LET T == room.game.completedTricks[Len(room.game.completedTricks)]
         trump == room.game.trump
     IN /\ LedSuit(T.cards[1].card, trump) # trump
        /\ \E w \in 2 .. Len(T.cards) :
             /\ LedSuit(T.cards[w].card, trump) = trump
             /\ T.winnerSeat = SeatOf(room, T.cards[w].playerId)
             /\ room.game.turnSeat = T.winnerSeat

\* C3: the step that completes the fifth trick leaves a summary with
\* makerTricks + defenderTricks = 5, makerTricks the number of tricks won
\* by the maker team, the award 1 for 3 or 4 tricks, 2 for 5 without a
\* loner, 4 for 5 with a loner, 2 to the defenders otherwise, and adds
\* exactly that award to the awarded team's score.
C3_HandScoring ==
  [][(room.game.phase = "playing" /\ HandEnded(room')) =>
       LET game == room'.game
           sum == game.handSummary
           won == Cardinality({i \in 1 .. Len(game.completedTricks) :
                     game.completedTricks[i].winnerSeat % 2 = game.makerTeam})
           loner == game.goingAlonePlayerId # NoPlayer
           gain0 == room'.score.team0 - room.score.team0
           gain1 == room'.score.team1 - room.score.team1
       IN /\ sum # NoSummary
          /\ Len(game.completedTricks) = 5
          /\ sum.makerTricks = won
          /\ sum.makerTricks + sum.defenderTricks = 5
          /\ sum.pointsAwarded \in {1, 2, 4}
          /\ won \in {3, 4} => sum.awardedTo = game.makerTeam /\ sum.pointsAwarded = 1
          /\ (won = 5 /\ ~loner) => sum.awardedTo = game.makerTeam /\ sum.pointsAwarded = 2
          /\ (won = 5 /\ loner) => sum.awardedTo = game.makerTeam /\ sum.pointsAwarded = 4
          /\ won <= 2 => sum.awardedTo = 1 - game.makerTeam /\ sum.pointsAwarded = 2
          /\ gain0 = IF sum.awardedTo = 0 THEN sum.pointsAwarded ELSE 0
          /\ gain1 = IF sum.awardedTo = 1 THEN sum.pointsAwarded ELSE 0
    ]_vars

\* A loner hand in which the maker took all five tricks.
C3_Witness ==
  /\ HandEnded(room)
  /\ room.game.goingAlonePlayerId # NoPlayer
  /\ room.game.handSummary.makerTricks = 5
  /\ room.game.handSummary.pointsAwarded = 4

\* C4: both scores lie in 0 .. TARGET_SCORE + 3; a finalized hand is
\* game-over exactly when a score has reached TARGET_SCORE; in bidding,
\* dealer-discard and playing states both scores are below it.
C4_ScoreBounds ==
  /\ room.score.team0 \in 0 .. (TARGET_SCORE + 3)
  /\ room.score.team1 \in 0 .. (TARGET_SCORE + 3)
  /\ hasGame(room) =>
       LET ended == room.score.team0 >= TARGET_SCORE
                      \/ room.score.team1 >= TARGET_SCORE
       IN /\ room.game.phase = "game-over" => ended
          /\ room.game.phase # "game-over" => ~ended

\* A match won past the target: a score above TARGET_SCORE at game-over.
C4_Witness ==
  /\ hasGame(room) /\ room.game.phase = "game-over"
  /\ room.score.team0 > TARGET_SCORE \/ room.score.team1 > TARGET_SCORE

\* The action messages a client can send, over every suit and card id.
ClientMessages ==
  {Message(a) : a \in {"pass", "order-up", "start-next-hand", "restart-match",
                       "add-bot", "remove-bot", "set-seat", "set-bot-difficulty",
                       "start-room"}}
    \cup {[Message("choose-trump") EXCEPT !.suit = suit] : suit \in SUITS \cup {NoSuit}}
    \cup {[Message(a) EXCEPT !.cardId = c] :
            a \in {"discard", "play-card"}, c \in Cards \cup {NoCard}}

\* The messages of a seated player id that the rules reject in room r.
Refusals(r, id) ==
  LET game == r.game
      onTurn == game.turnSeat = SeatOf(r, id)
      hand == r.players[getPlayerById(r, id)].hand
  IN {m \in ClientMessages :
        \/ /\ m.action \in {"add-bot", "remove-bot", "set-seat",
                            "set-bot-difficulty", "start-room"}
           /\ id # r.creatorPlayerId
        \/ /\ hasGame(r)
           /\ \/ /\ m.action \in {"pass", "order-up", "choose-trump", "discard",
                                  "play-card"}
                 /\ ~onTurn
              \/ m.action = "pass"
                   /\ game.phase \notin {"bidding-round-1", "bidding-round-2"}
              \/ m.action = "order-up" /\ game.phase # "bidding-round-1"
              \/ m.action = "choose-trump"
                   /\ \/ game.phase # "bidding-round-2"
                      \/ m.suit = NoSuit
                      \/ m.suit = game.blockedSuit
              \/ m.action = "discard"
                   /\ \/ game.phase # "dealer-discard"
                      \/ m.cardId \notin Range(hand)
              \/ m.action = "play-card"
                   /\ \/ game.phase # "playing"
                      \/ m.cardId \notin Range(hand)
                      \/ m.cardId \notin MayPlay(hand, game.currentTrick, game.trump)
              \/ m.action = "start-next-hand" /\ game.phase # "hand-over"
              \/ m.action = "restart-match" /\ game.phase # "game-over"}

\* C5: an action the rules reject throws and leaves the room as it was
\* (with turnSeat still on a player who named the blocked suit); the step
\* that answers it sends one error frame, to the sender, and changes nothing
\* else: no persist, no broadcast, no info message, no scheduler pass.
C5_RejectedActions ==
  /\ [](\A id \in sessions :
          getPlayerById(room, id) # 0 =>
            \A m \in Refusals(room, id) :
              LET res == handleAction(room, id, m, 1, 0)
              IN res.err /\ res.room = room)
  /\ [][(\E f \in outbox' : f.type = "error") =>
          /\ \E id \in sessions : outbox' = {[to |-> id, type |-> "error"]}
          /\ room' = room
          /\ persisted' = persisted
          /\ pending' = pending
          /\ loops' = loops
          /\ autoAdvanceInFlight' = autoAdvanceInFlight
       ]_vars

\* Round 2 of the bidding with a blocked suit: the player on turn has just
\* been answered with an error frame and is still on turn.
C5_Witness ==
  /\ hasGame(room) /\ room.game.phase = "bidding-round-2"
  /\ room.game.blockedSuit # NoSuit
  /\ \E id \in sessions :
       /\ outbox = {[to |-> id, type |-> "error"]}
       /\ room.game.turnSeat = SeatOf(room, id)
       /\ [Message("choose-trump") EXCEPT !.suit = room.game.blockedSuit]
            \in Refusals(room, id)

\* The room with the cards of every hand but viewerPlayerId's, and of the
\* kitty, replaced by the cards d places further round the deck.
Scramble(r, viewerPlayerId, d) ==
  LET Turned(cards) == [j \in 1 .. Len(cards) |-> (cards[j] + d) % DECK_SIZE]
  IN [r EXCEPT
        !.players = [i \in 1 .. Len(r.players) |->
                       IF r.players[i].id = viewerPlayerId THEN r.players[i]
                       ELSE [r.players[i] EXCEPT !.hand = Turned(@)]],
        !.game = IF hasGame(r) THEN [@ EXCEPT !.kitty = Turned(@)] ELSE @]

\* C6: the snapshot sent to a recipient is the one any room gives that
\* differs only in the cards of the other hands and of the kitty; it shows
\* the recipient's own hand in full and every hand's size.
C6_HandsHidden ==
  \A f \in outbox :
    f.type = "state" =>
      LET mi == getPlayerById(room, f.to) IN
      /\ \A d \in 1 .. (DECK_SIZE - 1) :
           f.state = buildClientState(Scramble(room, f.to, d), f.to)
      /\ mi # 0 => f.state.you.hand = room.players[mi].hand
      /\ \A i \in 1 .. Len(f.state.players) :
           f.state.players[i].handCount
             = Len(room.players[getPlayerById(room, f.state.players[i].id)].hand)

\* A snapshot sent during play to a player who holds cards, as do others.
C6_Witness ==
  /\ hasGame(room) /\ room.game.phase = "playing"
  /\ \E f \in outbox :
       /\ f.type = "state"
       /\ f.state.you.hand # <<>>
       /\ \E i \in 1 .. Len(room.players) :
            room.players[i].id # f.to /\ room.players[i].hand # <<>>

\* The player on turn, and whether the scheduler has a step to perform.
OnTurn(r) == r.players[getSeatPlayer(r, r.game.turnSeat)]

Bidding(r) ==
  r.game.phase \in {"bidding-round-1", "bidding-round-2", "dealer-discard", "playing"}

AutomatedStepDue(r) ==
  /\ hasGame(r)
  /\ \/ r.game.phase = "hand-over" /\ \E i \in 1 .. Len(r.players) : r.players[i].isBot
     \/ Bidding(r) /\ (OnTurn(r).isBot \/ ~OnTurn(r).connected)

\* C7: at most one runAutoAdvance loop is in flight, the flag is set
\* exactly while it is, and a scheduling request that finds it set starts
\* no second loop.
C7_OneLoop ==
  /\ Len(loops) <= 1
  /\ autoAdvanceInFlight <=> loops # <<>>

\* A handler resumed (its broadcast is out) while the loop was waiting for
\* the write of the turn it had just played: the loop is still the only one.
C7_Witness ==
  /\ Len(loops) = 1 /\ loops[1].pc = "persist"
  /\ \E f \in outbox : f.type = "state"

\* C8: whenever an automated step is due and no handler is about to
\* request a pass, a pass is in flight to perform it.
C8_NoMissedWakeup ==
  (AutomatedStepDue(room) /\ pending = 0) => loops # <<>>

\* C9: a step that changes the game without a client's handler having
\* run is the scheduler's, and it is taken only for a bot, for a
\* disconnected player, or to deal after a hand; a pass that wakes to find
\* a connected human on turn ends and changes nothing.
C9_NeverForConnectedHuman ==
  [][/\ (room'.game # room.game /\ pending' <= pending)
          => AutomatedStepDue(room)
     /\ (/\ loops # <<>> /\ loops[1].pc = "sleep" /\ loops' # loops
         /\ Bidding(room) /\ ~OnTurn(room).isBot /\ OnTurn(room).connected)
          => loops' = <<>> /\ room' = room
    ]_vars

\* The creator is on turn and connected, and the pass that had been asleep
\* for its seat has ended without a frame: the turn is still the creator's.
C9_Witness ==
  /\ hasGame(room) /\ Bidding(room)
  /\ OnTurn(room).id = room.creatorPlayerId /\ OnTurn(room).connected
  /\ room.game.currentTrick # <<>>
  /\ loops = <<>> /\ pending = 0 /\ outbox = {}

\* C10: once the creator has added three bots, started the room and left,
\* the match is over whenever the scheduler has nothing in flight.
C10_BotMatchEnds ==
  (hasGame(room) /\ sessions = {} /\ pending = 0 /\ loops = <<>>)
    => /\ room.game.phase = "game-over"
       /\ room.score.team0 >= TARGET_SCORE \/ room.score.team1 >= TARGET_SCORE

\* The number of cards held in the hands, and lying in the completed tricks.
RECURSIVE HandSizes(_)
HandSizes(players) ==
  IF players = <<>> THEN 0
  ELSE Len(Head(players).hand) + HandSizes(Tail(players))

RECURSIVE TrickSizes(_)
TrickSizes(tricks) ==
  IF tricks = <<>> THEN 0
  ELSE Len(Head(tricks).cards) + TrickSizes(Tail(tricks))

\* C11, as worded: in the playing phase the hand sizes, the current trick
\* and four cards for each completed trick add up to 20, loner or not.
C11_TwentyCardsFourPerTrick ==
  (hasGame(room) /\ room.game.phase = "playing") =>
    HandSizes(room.players) + Len(room.game.currentTrick)
      + 4 * Len(room.game.completedTricks) = ROOM_SIZE * HAND_SIZE

\* C11, amended: in the playing phase the hand sizes, the current trick and
\* the cards of the completed tricks add up to 20, a completed trick
\* holding four cards, or three in a loner hand, whose sitting-out seat
\* keeps its five cards.
C11_TwentyCards ==
  (hasGame(room) /\ room.game.phase = "playing") =>
    LET perTrick == IF room.game.sittingOutSeat = NoSeat THEN 4 ELSE 3 IN
    /\ HandSizes(room.players) + Len(room.game.currentTrick)
         + perTrick * Len(room.game.completedTricks) = ROOM_SIZE * HAND_SIZE
    /\ TrickSizes(room.game.completedTricks)
         = perTrick * Len(room.game.completedTricks)
    /\ room.game.sittingOutSeat # NoSeat =>
         Len(room.players[getSeatPlayer(room, room.game.sittingOutSeat)].hand)
           = HAND_SIZE

\* A loner hand after an order-up and the dealer's discard, with tricks
\* completed and a trick under way.
C11_Witness ==
  /\ hasGame(room) /\ room.game.phase = "playing"
  /\ room.game.sittingOutSeat # NoSeat
  /\ room.game.trump = suitOf(room.game.upcard)
  /\ Len(room.game.completedTricks) >= 2
  /\ room.game.currentTrick # <<>>

\* The cards of a room gathered in one list: the four hands, the current
\* trick, the completed tricks, the upcard and the kitty.
RECURSIVE HandCards(_)
HandCards(players) ==
  IF players = <<>> THEN <<>>
  ELSE Head(players).hand \o HandCards(Tail(players))

PlayedCards(trick) == [i \in 1 .. Len(trick) |-> trick[i].card]

RECURSIVE TrickCards(_)
TrickCards(tricks) ==
  IF tricks = <<>> THEN <<>>
  ELSE PlayedCards(Head(tricks).cards) \o TrickCards(Tail(tricks))

Collected(r) ==
  HandCards(r.players) \o PlayedCards(r.game.currentTrick)
    \o TrickCards(r.game.completedTricks)
    \o (IF r.game.upcard = NoCard THEN <<>> ELSE <<r.game.upcard>>)
    \o r.game.kitty

Occurrences(card, cards) ==
  Cardinality({i \in 1 .. Len(cards) : cards[i] = card})

\* C12: in every state of a dealt hand the hands, the current trick, the
\* completed tricks, the upcard and the kitty together hold each of the 24
\* cards of the deck exactly once.
C12_CardConservation ==
  hasGame(room) => \A card \in Cards : Occurrences(card, Collected(room)) = 1

\* C13: in the playing phase the seat on turn is a seat of the table and is
\* not the sitting-out seat: when play starts, after a play that leaves the
\* trick open and after a trick is resolved.
C13_TurnNeverSitsOut ==
  (hasGame(room) /\ room.game.phase = "playing") =>
    /\ room.game.turnSeat \in Seats
    /\ room.game.turnSeat # room.game.sittingOutSeat

\* A loner hand in which the seat before the sitting-out seat has just
\* played to an open trick: the turn has gone past the sitting-out seat.
C13_Witness ==
  /\ hasGame(room) /\ room.game.phase = "playing"
  /\ room.game.sittingOutSeat # NoSeat
  /\ room.game.currentTrick # <<>>
  /\ nextSeat(SeatOf(room, room.game.currentTrick[Len(room.game.currentTrick)].playerId))
       = room.game.sittingOutSeat
  /\ room.game.turnSeat = nextSeat(room.game.sittingOutSeat)

\* Trump is set exactly in the phases that follow a call.
TrumpCalled(r) ==
  r.game.trump # NoSuit
    <=> r.game.phase \in {"dealer-discard", "playing", "hand-over", "game-over"}

BotToBid(r) ==
  /\ hasGame(r)
  /\ r.game.phase \in {"bidding-round-1", "bidding-round-2"}
  /\ OnTurn(r).isBot

\* C14, as worded: trump is non-null exactly in dealer-discard, playing,
\* hand-over and game-over, also in the game as it is while a bot on turn
\* estimates a bid in one of the two bidding rounds.
C14_TrumpNullWhileEstimating ==
  hasGame(room) =>
    /\ TrumpCalled(room)
    /\ BotToBid(room) =>
         \A i \in 1 .. Len(estimatedSuits(room)) :
           TrumpCalled(estimateBidSearching(room, estimatedSuits(room)[i]))

\* C14, amended: in every state a handler or a scheduler turn leaves, trump
\* is non-null exactly in dealer-discard, playing, hand-over and game-over,
\* and so it is once a bot on turn has estimated its bids: the estimate
\* leaves the room as it found it.
C14_TrumpIffCalled ==
  hasGame(room) =>
    /\ TrumpCalled(room)
    /\ BotToBid(room) =>
         /\ TrumpCalled(afterChooseBotAction(room))
         /\ afterChooseBotAction(room) = room

\* Round two of the bidding of a hand dealt after a match was won and
\* restarted, just after the scheduler has let a bot pass: the next seat is
\* on turn and trump is null.
C14_Witness ==
  /\ hasGame(room) /\ room.game.phase = "bidding-round-2"
  /\ room.game.trump = NoSuit
  /\ room.game.turnSeat # nextSeat(room.game.dealerSeat)
  /\ room.players[getSeatPlayer(room, (room.game.turnSeat + ROOM_SIZE - 1) % ROOM_SIZE)].isBot
  /\ Len(loops) = 1 /\ loops[1].pc = "persist"
  /\ room.score.team0 + room.score.team1 = 0
  /\ room.game.dealerSeat = 2

\* C15, as worded: no step of the room, a client's or the scheduler's,
\* lowers score.team0 or score.team1.
C15_ScoresNeverDecrease ==
  [][/\ room'.score.team0 >= room.score.team0
     /\ room'.score.team1 >= room.score.team1]_vars

\* C15, amended: a step that deals the first hand of a new match out of
\* game-over (restart-match) sets both scores to 0; no other step, a
\* client's or the scheduler's, lowers score.team0 or score.team1.
C15_ScoresMonotonic ==
  [][IF room.game.phase = "game-over" /\ room'.game.phase # "game-over"
     THEN /\ room'.game.phase = "bidding-round-1"
          /\ room'.score = [team0 |-> 0, team1 |-> 0]
     ELSE /\ room'.score.team0 >= room.score.team0
          /\ room'.score.team1 >= room.score.team1]_vars

\* The first bidding round of a match restarted after the one under way was
\* won: the scores are back at 0.
C15_Witness ==
  /\ hasGame(room) /\ room.game.phase = "bidding-round-1"
  /\ room.score = [team0 |-> 0, team1 |-> 0]
  /\ room.game.dealerSeat = 2
  /\ room.game.handNumber = MaxHandNumber

\* The seats the players of room r hold.
SeatsOf(r) == {r.players[i].seatIndex : i \in 1 .. Len(r.players)}

\* C16: the players of a room sit on distinct seats in 0..3, whatever
\* connect, reconnect, add-bot, remove-bot, set-seat and start-room did; a
\* set-seat of the creator that names a seat held by another player leaves
\* the target on that seat and the other player on the target's old seat,
\* and moves nobody else.
C16_SeatsUnique ==
  /\ SeatsOf(room) \subseteq Seats
  /\ Cardinality(SeatsOf(room)) = Len(room.players)
  /\ inLobby(room) =>
       \A t, o \in 1 .. Len(room.players) :
         t # o =>
           LET res == handleSetSeat(room, room.creatorPlayerId,
                                    room.players[t].id, room.players[o].seatIndex)
           IN /\ ~res.err
              /\ Len(res.room.players) = Len(room.players)
              /\ \A i \in 1 .. Len(room.players) :
                   /\ res.room.players[i].id = room.players[i].id
                   /\ res.room.players[i].seatIndex =
                        IF i = t THEN room.players[o].seatIndex
                        ELSE IF i = o THEN room.players[t].seatIndex
                        ELSE room.players[i].seatIndex

\* A started room of two humans and two bots whose seats are no longer in
\* the order they joined: the player who created the room is not on seat 0
\* and a later player is.
C16_Witness ==
  /\ hasGame(room)
  /\ Len(room.players) = ROOM_SIZE
  /\ room.botCount = 2
  /\ room.players[1].seatIndex # 0
  /\ \E i \in 2 .. Len(room.players) : room.players[i].seatIndex = 0

\* C17, as worded: a room holds no player, one player or four.
C17_ZeroOneOrFour == Len(room.players) \in {0, 1, ROOM_SIZE}

\* C17, amended: a room holds from one to four players, any of these
\* numbers while it waits in the lobby, and four whenever it has a game.
C17_OneToFour ==
  /\ Len(room.players) \in 1 .. ROOM_SIZE
  /\ hasGame(room) => Len(room.players) = ROOM_SIZE
  /\ room.status = "playing" <=> hasGame(room)

\* The lobby with three players, one of them a bot, as broadcast to the
\* connected players.
C17_Witness ==
  /\ inLobby(room)
  /\ Len(room.players) = ROOM_SIZE - 1
  /\ room.botCount = 1
  /\ \E f \in outbox : f.type = "state" /\ Len(f.state.players) = ROOM_SIZE - 1

\* The seat across the table.
Across(seat) == (seat + 2) % ROOM_SIZE

\* The players who have a card in a trick.
PlayersIn(trick) == {trick[i].playerId : i \in 1 .. Len(trick)}

\* What a hand looks like from the call on: alone, the caller's partner sits
\* out, holds its five cards through the play and is in no trick, and
\* tricks have three cards; otherwise nobody sits out and tricks have four.
\* Either way the hand ends with five tricks.
LonerShape(r) ==
  LET game == r.game
      alone == game.goingAlonePlayerId # NoPlayer
      perTrick == IF alone THEN 3 ELSE 4
  IN /\ IF alone
        THEN /\ game.goingAlonePlayerId = game.calledByPlayerId
             /\ game.sittingOutSeat = Across(SeatOf(r, game.calledByPlayerId))
        ELSE game.sittingOutSeat = NoSeat
     /\ Len(game.currentTrick) < perTrick
     /\ \A i \in 1 .. Len(game.completedTricks) :
          Len(game.completedTricks[i].cards) = perTrick
     /\ (alone /\ game.phase \in {"playing", "hand-over", "game-over"}) =>
          LET out == r.players[getSeatPlayer(r, game.sittingOutSeat)]
          IN /\ Len(out.hand) = HAND_SIZE
             /\ out.id \notin PlayersIn(game.currentTrick)
             /\ \A i \in 1 .. Len(game.completedTricks) :
                  out.id \notin PlayersIn(game.completedTricks[i].cards)
     /\ HandEnded(r) => Len(game.completedTricks) = LAST_TRICK_INDEX + 1
     /\ game.phase = "playing" => Len(game.completedTricks) <= LAST_TRICK_INDEX

\* What a call by the seat on turn gives: with alone, the caller goes alone
\* and the seat across sits out; without, nobody does.
CallShape(r, called, caller, alone) ==
  /\ ~called.err
  /\ called.room.game.calledByPlayerId = caller
  /\ called.room.game.goingAlonePlayerId = IF alone THEN caller ELSE NoPlayer
  /\ called.room.game.sittingOutSeat =
       IF alone THEN Across(r.game.turnSeat) ELSE NoSeat

\* C18: a call with alone makes the caller's partner (the seat across) the
\* sitting-out seat and the caller the player going alone, a call without
\* it leaves sittingOutSeat null; from then on tricks complete after three
\* plays (four without a loner), the turn passes over the sitting-out seat,
\* whose hand is not touched during the play, and the hand ends after five
\* tricks.
C18_LonerHand ==
  /\ [](hasGame(room) =>
          /\ LonerShape(room)
          /\ \A alone \in BOOLEAN :
               /\ room.game.phase = "bidding-round-1" =>
                    CallShape(room, handleOrderUp(room, OnTurn(room).id, alone),
                              OnTurn(room).id, alone)
               /\ room.game.phase = "bidding-round-2" =>
                    \A suit \in SUITS \ {room.game.blockedSuit} :
                      CallShape(room,
                                handleChooseTrump(room, OnTurn(room).id, suit, alone),
                                OnTurn(room).id, alone))
  /\ [][(hasGame(room) /\ room.game.phase = "playing") =>
          /\ (/\ room'.game.phase = "playing"
              /\ Len(room'.game.currentTrick) = Len(room.game.currentTrick) + 1)
               => room'.game.turnSeat =
                    IF nextSeat(room.game.turnSeat) = room.game.sittingOutSeat
                    THEN Across(room.game.turnSeat)
                    ELSE nextSeat(room.game.turnSeat)
          /\ (room.game.sittingOutSeat # NoSeat
                /\ room'.game.handNumber = room.game.handNumber)
               => /\ room'.game.sittingOutSeat = room.game.sittingOutSeat
                  /\ room'.players[getSeatPlayer(room, room.game.sittingOutSeat)].hand
                       = room.players[getSeatPlayer(room, room.game.sittingOutSeat)].hand
       ]_vars

\* A hand called alone in the second bidding round and played to its end
\* without a sweep: five tricks of three cards.
C18_Witness ==
  /\ HandEnded(room)
  /\ room.game.goingAlonePlayerId # NoPlayer
  /\ room.game.trump # suitOf(room.game.upcard)
  /\ room.game.handSummary.makerTricks < LAST_TRICK_INDEX + 1
  /\ Len(room.game.completedTricks) = LAST_TRICK_INDEX + 1

\* The room after an accepted order-up of the seat on turn in room r.
OrderedUp(r, after) ==
  LET caller == OnTurn(r)
      di == getSeatPlayer(r, r.game.dealerSeat)
  IN /\ after.game.phase = "dealer-discard"
     /\ after.game.trump = r.game.upcard \div RANK_COUNT
     /\ after.game.makerTeam = caller.seatIndex % 2
     /\ after.game.calledByPlayerId = caller.id
     /\ after.game.turnSeat = r.game.dealerSeat
     /\ after.game.dealerSeat = r.game.dealerSeat
     /\ after.players[di].hand = Append(r.players[di].hand, r.game.upcard)
     /\ Len(after.players[di].hand) = HAND_SIZE + 1
     /\ \A i \in 1 .. Len(r.players) :
          i # di => after.players[i] = r.players[i]
     /\ after.score = r.score

\* C19: in bidding round 1 an order-up by the seat on turn, alone or not, is
\* accepted and puts the upcard in the dealer's hand, which then holds six
\* cards, makes the upcard's suit trump, the caller's team the makers and
\* the caller calledByPlayerId, and moves to dealer-discard with the dealer
\* on turn; no other hand changes.
C19_OrderUp ==
  /\ []((hasGame(room) /\ room.game.phase = "bidding-round-1") =>
          \A alone \in BOOLEAN :
            LET res == handleOrderUp(room, OnTurn(room).id, alone)
            IN ~res.err /\ OrderedUp(room, res.room))
  /\ [][(/\ hasGame(room) /\ room.game.phase = "bidding-round-1"
         /\ room'.game.phase # "bidding-round-1"
         /\ room'.game.handNumber = room.game.handNumber
         /\ room'.game.phase # "bidding-round-2")
          => OrderedUp(room, room')]_vars

\* The dealer's partner has ordered up alone: the dealer, who will sit out,
\* holds six cards and is on turn to discard.
C19_Witness ==
  /\ hasGame(room) /\ room.game.phase = "dealer-discard"
  /\ room.game.goingAlonePlayerId # NoPlayer
  /\ SeatOf(room, room.game.calledByPlayerId) = Across(room.game.dealerSeat)
  /\ room.game.turnSeat = room.game.dealerSeat
  /\ Len(OnTurn(room).hand) = HAND_SIZE + 1

\* A hand as dealt: bidding round 1, five cards a hand, an upcard, every
\* card once, nothing called and nothing played.
FreshHand(r) ==
  /\ r.game.phase = "bidding-round-1"
  /\ r.game.turnSeat = (r.game.dealerSeat + 1) % ROOM_SIZE
  /\ r.game.upcard # NoCard
  /\ r.game.blockedSuit = NoSuit
  /\ r.game.trump = NoSuit
  /\ r.game.makerTeam = NoTeam
  /\ r.game.calledByPlayerId = NoPlayer
  /\ r.game.goingAlonePlayerId = NoPlayer
  /\ r.game.sittingOutSeat = NoSeat
  /\ r.game.currentTrick = <<>> /\ r.game.completedTricks = <<>>
  /\ \A i \in 1 .. Len(r.players) : Len(r.players[i].hand) = HAND_SIZE
  /\ \A card \in Cards : Occurrences(card, Collected(r)) = 1

\* The room after the pass of the seat on turn in a bidding state r.
Passed(r, after) ==
  LET left == (r.game.turnSeat + 1) % ROOM_SIZE IN
  /\ after.game.trump = NoSuit
  /\ after.game.makerTeam = NoTeam
  /\ after.score = r.score
  /\ IF r.game.turnSeat # r.game.dealerSeat
     THEN after = [r EXCEPT !.game.turnSeat = left]
     ELSE IF r.game.phase = "bidding-round-1"
     THEN after = [r EXCEPT !.game.phase = "bidding-round-2",
                            !.game.turnSeat = left,
                            !.game.blockedSuit = r.game.upcard \div RANK_COUNT]
     ELSE /\ FreshHand(after)
          /\ after.game.dealerSeat = left
          /\ after.game.handNumber = r.game.handNumber + 1
          /\ \A i \in 1 .. Len(r.players) :
               [after.players[i] EXCEPT !.hand = <<>>]
                 = [r.players[i] EXCEPT !.hand = <<>>]

\* C20: the pass of the seat on turn in a bidding round is accepted; a
\* non-dealer's pass only moves the turn one seat clockwise; the dealer's
\* pass in round 1 opens round 2 with the upcard's suit blocked and the seat
\* left of the dealer on turn; the dealer's pass in round 2 redeals a fresh
\* hand in round 1 with the dealer one seat clockwise and the scores as
\* they were.  A pass sets neither trump nor maker.
C20_Pass ==
  /\ []((hasGame(room)
           /\ room.game.phase \in {"bidding-round-1", "bidding-round-2"}) =>
          \A k \in Deals :
            LET res == handlePass(room, OnTurn(room).id, k)
            IN ~res.err /\ Passed(room, res.room))
  /\ [][(/\ hasGame(room)
         /\ room.game.phase \in {"bidding-round-1", "bidding-round-2"}
         /\ room'.game.phase \in {"bidding-round-1", "bidding-round-2"}
         /\ room'.game # room.game)
          => Passed(room, room')]_vars

\* The first round of a hand redealt after all four passed twice: the
\* dealer has moved on one seat and the score, 9-8, is as it was.
C20_Witness ==
  /\ hasGame(room) /\ FreshHand(room)
  /\ room.game.handNumber = MaxHandNumber
  /\ room.game.dealerSeat = 2
  /\ room.score = [team0 |-> 9, team1 |-> 8]

\* The play as it opens: five cards in every hand, no trick begun or
\* completed, and on lead the first seat clockwise from the dealer that does
\* not sit out.
PlayOpens(r) ==
  LET left == (r.game.dealerSeat + 1) % ROOM_SIZE IN
  /\ \A i \in 1 .. Len(r.players) : Len(r.players[i].hand) = HAND_SIZE
  /\ r.game.currentTrick = <<>>
  /\ r.game.completedTricks = <<>>
  /\ r.game.trickIndex = 0
  /\ r.game.turnSeat = IF left = r.game.sittingOutSeat
                       THEN (left + 1) % ROOM_SIZE
                       ELSE left

\* C21: in dealer-discard the dealer holds six cards and is the only player
\* whose discard is accepted, and only for a card of that hand, which then
\* leaves it; whenever the phase becomes playing, from dealer-discard or
\* from round 2 with a trump other than the blocked suit, every hand has
\* five cards, currentTrick and completedTricks are empty, trickIndex is 0
\* and the first seat clockwise from the dealer that does not sit out leads.
C21_StartOfPlay ==
  /\ []((hasGame(room) /\ room.game.phase = "dealer-discard") =>
          LET dealer == room.players[getSeatPlayer(room, room.game.dealerSeat)] IN
          /\ Len(dealer.hand) = HAND_SIZE + 1
          /\ \A id \in PlayerIds, c \in Cards \cup {NoCard} :
               LET res == handleDiscard(room, id, c) IN
               IF id = dealer.id /\ c \in Range(dealer.hand)
               THEN /\ ~res.err
                    /\ res.room.game.phase = "playing"
                    /\ PlayOpens(res.room)
                    /\ Range(res.room.players[getPlayerById(room, id)].hand)
                         = Range(dealer.hand) \ {c}
               ELSE res.err /\ res.room = room)
  /\ [][(/\ hasGame(room) /\ room.game.phase # "playing"
         /\ room'.game.phase = "playing")
          => /\ PlayOpens(room')
             /\ room'.game.dealerSeat = room.game.dealerSeat
             /\ \/ room.game.phase = "dealer-discard"
                \/ /\ room.game.phase = "bidding-round-2"
                   /\ room'.game.trump # room.game.blockedSuit]_vars

\* The play opens on a hand called alone in round 2 by the seat right of the
\* dealer: its partner, left of the dealer, sits out and the dealer's
\* partner leads.
C21_Witness ==
  /\ hasGame(room) /\ room.game.phase = "playing"
  /\ room.game.currentTrick = <<>> /\ room.game.completedTricks = <<>>
  /\ room.game.blockedSuit # NoSuit
  /\ room.game.sittingOutSeat = nextSeat(room.game.dealerSeat)
  /\ room.game.turnSeat = Across(room.game.dealerSeat)

\* The room after a hand that ended in room r has been followed by a new
\* one: a fresh hand in round 1, the dealer one seat clockwise, the seat
\* left of it on turn, the same players at the same seats.
NewHand(r, after) ==
  /\ FreshHand(after)
  /\ after.game.dealerSeat = (r.game.dealerSeat + 1) % ROOM_SIZE
  /\ after.game.turnSeat = (r.game.dealerSeat + 2) % ROOM_SIZE
  /\ after.game.handNumber = r.game.handNumber + 1
  /\ \A i \in 1 .. Len(r.players) :
       [after.players[i] EXCEPT !.hand = <<>>] = [r.players[i] EXCEPT !.hand = <<>>]

\* C22: start-next-hand from any player is refused, with nothing changed,
\* in every phase but hand-over, and restart-match in every phase but
\* game-over; accepted, each deals a new hand in bidding round 1 with the
\* dealer one seat clockwise of the previous dealer and the seat left of the
\* new dealer on turn; start-next-hand keeps the scores and restart-match
\* sets both to 0.  No hand follows an ended one in any other way.
C22_NextHandAndRestart ==
  /\ [](hasGame(room) =>
          \A id \in PlayerIds, k \in Deals :
            LET next == handleAction(room, id, Message("start-next-hand"), k, 0)
                restart == handleAction(room, id, Message("restart-match"), k, 0)
            IN /\ IF room.game.phase = "hand-over"
                  THEN /\ ~next.err
                       /\ NewHand(room, next.room)
                       /\ next.room.score = room.score
                  ELSE next.err /\ next.room = room
               /\ IF room.game.phase = "game-over"
                  THEN /\ ~restart.err
                       /\ NewHand(room, restart.room)
                       /\ restart.room.score = [team0 |-> 0, team1 |-> 0]
                  ELSE restart.err /\ restart.room = room)
  /\ [][(/\ hasGame(room) /\ room.game.phase \in {"hand-over", "game-over"}
         /\ room'.game # room.game)
          => /\ NewHand(room, room')
             /\ room'.score = IF room.game.phase = "hand-over" THEN room.score
                              ELSE [team0 |-> 0, team1 |-> 0]]_vars

\* The hand dealt by start-next-hand after a hand that began at 8-7 and gave
\* the makers one point: the score stands and the dealer has moved on.
C22_Witness ==
  /\ hasGame(room) /\ FreshHand(room)
  /\ room.game.handNumber = MaxHandNumber
  /\ room.game.dealerSeat = 2
  /\ room.score \in {[team0 |-> 9, team1 |-> 7], [team0 |-> 8, team1 |-> 8]}

\* Room r with the connected flag of the player at index pi set to flag and
\* nothing else touched.
Marked(r, pi, flag) == [r EXCEPT !.players[pi].connected = flag]

\* A name with its capitals made small.
Folded(name) ==
  LET small == <<"p1", "p2", "p3", "p4",
                 "atlas bot", "rook bot", "vega bot", "nova bot">>
      given == HumanNames \o SubSeq(BOT_NAMES, 1, ROOM_SIZE)
  IN IF \E i \in 1 .. Len(given) : given[i] = name
     THEN small[CHOOSE i \in 1 .. Len(given) : given[i] = name]
     ELSE name

\* The names a client may give for a player: the name as stored and the
\* same letters in lower case.
Spellings(name) == {name, Folded(name)}

\* C23: the close of a player's session only takes the session away and
\* marks the player disconnected: id, seat, hand and game stay.  A connect
\* under the name of a disconnected non-bot player, in either case, is
\* accepted, binds the session to that player's id and only marks the
\* player connected; the broadcast that follows sends every session a
\* snapshot with its player's id, seat and hand.
C23_CloseAndReconnect ==
  /\ [](room # NoRoom =>
          \A pi \in 1 .. Len(room.players) :
            LET player == room.players[pi] IN
            (~player.isBot /\ ~player.connected) =>
              \A name \in Spellings(player.name) :
                LET res == connectToRoom(room, sessions,
                                         Request(name, room.password, FALSE, NoToken))
                IN /\ res.status = 101
                   /\ res.playerId = player.id
                   /\ res.sessions = sessions \cup {player.id}
                   /\ res.room = Marked(room, pi, TRUE))
  /\ [][/\ (pending' = pending + 1 /\ sessions' # sessions /\ sessions' \subseteq sessions)
           => \E id \in sessions :
                /\ sessions' = sessions \ {id}
                /\ room' = Marked(room, getPlayerById(room, id), FALSE)
        /\ response'.status = 101
           => \E pi \in 1 .. Len(room.players) :
                /\ ~room.players[pi].isBot /\ ~room.players[pi].connected
                /\ sessions' = sessions \cup {room.players[pi].id}
                /\ room' = Marked(room, pi, TRUE)
        /\ (pending' = pending - 1 /\ sessions' = sessions)
           => \A id \in sessions :
                LET player == room.players[getPlayerById(room, id)] IN
                \E f \in outbox' :
                  /\ f.to = id /\ f.type = "state"
                  /\ f.state.you.id = id
                  /\ f.state.you.seatIndex = player.seatIndex
                  /\ f.state.you.hand = player.hand
       ]_vars

\* The creator, back under its name in the middle of the play, is sent its
\* seat and the cards it still holds.
C23_Witness ==
  /\ clients.socket[room.creatorPlayerId] # NoClient
  /\ hasGame(room) /\ room.game.phase = "playing"
  /\ \E f \in outbox :
       /\ f.to = room.creatorPlayerId /\ f.type = "state"
       /\ Len(f.state.you.hand) \in 1 .. (HAND_SIZE - 1)
       /\ f.state.you.seatIndex = 0

\* The /websocket requests: names of humans and bots in either case and a
\* name nobody has, the password right, wrong or missing, create = 1 or
\* not, no token, a wrong one, or one a room may have.
ConnectRequests ==
  {Request(name, password, create, creatorToken) :
     name \in {"P1", "p1", "P2", "Atlas Bot", "atlas bot", "P3"},
     password \in {NoPassword, "secret", "wrong"},
     create \in BOOLEAN,
     creatorToken \in {NoToken, "guess", "minted", "chosen"}}

\* The status the rules give a request: the first refusal that applies, in
\* the order create conflict, room not found, password, name of a bot or of
\* a connected player, room full; 101 when none does.
Expected(r, request) ==
  LET named == IF r = NoRoom THEN {}
               ELSE {i \in 1 .. Len(r.players) :
                       Folded(r.players[i].name) = Folded(request.name)}
  IN IF r # NoRoom /\ request.create /\ request.creatorToken # r.creatorToken
     THEN 409
     ELSE IF r = NoRoom THEN (IF request.create THEN 101 ELSE 404)
     ELSE IF r.password # NoPassword /\ request.password # r.password THEN 403
     ELSE IF \E i \in named : r.players[i].isBot \/ r.players[i].connected THEN 409
     ELSE IF named = {} /\ Len(r.players) = ROOM_SIZE THEN 409
     ELSE 101

\* C24: a connect is refused with 409 on create = 1 for a room that exists
\* when the request does not bring its creator token, with 403 on a wrong
\* password, with 409 under the name of a bot or of a connected player, and
\* with 409 when the room is full and no disconnected player has the name;
\* it is accepted otherwise (404 aside).  A refused request leaves the
\* room, its players, the sessions and the stored rooms as they were.
C24_RefusedConnects ==
  /\ [](\A request \in ConnectRequests :
          LET res == connectToRoom(room, sessions, request) IN
          /\ res.status = Expected(room, request)
          /\ res.status # 101 => (res.room = room /\ res.sessions = sessions))
  /\ [][response'.status \in {403, 404, 409}
          => UNCHANGED <<room, sessions, persisted, pending, clients,
                         autoAdvanceInFlight, loops>>]_vars

\* The lobby commands a client can send: add-bot, remove-bot, start-room,
\* set-seat with every target and seat (or without them) and
\* set-bot-difficulty with a level or without one.
LobbyMessages ==
  {Message("add-bot"), Message("remove-bot"), Message("start-room")}
    \cup {[Message("set-seat") EXCEPT !.targetPlayerId = input[1],
                                      !.seatIndex = input[2]] :
            input \in SetSeatInputs}
    \cup {[Message("set-bot-difficulty") EXCEPT !.botDifficulty = d] :
            d \in {"", "easy", "medium", "hard"}}

\* C25: add-bot, remove-bot, set-seat, set-bot-difficulty and start-room,
\* sent by any player id in any state, are accepted only when the sender is
\* the room's creatorPlayerId and the room waits in the lobby without a
\* game, start-room only with four players seated; a refused command leaves
\* the room as it was; a room that has a game refuses them all, and a room
\* that has a game keeps having one.
C25_LobbyCommands ==
  /\ [](\A playerId \in PlayerIds, message \in LobbyMessages :
          \A k \in Deals, rnd \in Seats :
            LET res == handleAction(room, playerId, message, k, rnd) IN
            /\ ~res.err =>
                 /\ playerId = room.creatorPlayerId
                 /\ room.status = "waiting"
                 /\ ~hasGame(room)
                 /\ message.action = "start-room" =>
                      Len(room.players) = ROOM_SIZE
            /\ res.err => res.room = room
            /\ (hasGame(room) \/ room.status # "waiting") => res.err)
  /\ [][hasGame(room) => hasGame(room')]_vars

\* A room of the creator, a second player and two bots whose game the
\* creator has started: the creator's remove-bot, which the lobby accepted,
\* is now refused.
C25_Witness ==
  /\ hasGame(room)
  /\ room.botCount = 2
  /\ handleRemoveBot(room, room.creatorPlayerId).err
  /\ \E f \in outbox : f.type = "state" /\ f.state.status = "playing"

\* The creator tokens a DELETE may carry: none, a made-up one, and the two
\* a room can have.
DeleteTokens == {NoToken, "guess", "chosen", "minted"}

\* C26: DELETE answers 200 exactly when the room exists and the request
\* carries the room's creator token, and then the room is gone from memory
\* and from storage, every session gets a close with code 1001 and GET
\* /rooms lists nothing; without the room the answer is 404, with a missing
\* or wrong token 403, and a step answered 403 or 404 leaves the room, the
\* sessions and the stored rooms as they were.
C26_DeleteRoom ==
  /\ [](/\ \A creatorToken \in DeleteTokens :
             LET res == deleteRoom(room, creatorToken) IN
             /\ res.status =
                  IF room = NoRoom THEN 404
                  ELSE IF creatorToken # NoToken /\ creatorToken = room.creatorToken
                  THEN 200
                  ELSE 403
             /\ res.status = 200 => res.room = NoRoom /\ listRooms(res.room) = <<>>
             /\ res.status # 200 => res.room = room
        /\ room = NoRoom => response.rooms = <<>>)
  /\ [][/\ (room # NoRoom /\ room' = NoRoom) =>
             /\ response'.status = 200
             /\ persisted' = NoRoom
             /\ sessions' = sessions
             /\ outbox' = {[to |-> id, type |-> "close", code |-> 1001] :
                             id \in sessions}
        /\ response'.status \in {403, 404} =>
             UNCHANGED <<room, sessions, persisted>>]_vars

\* The creator has deleted a room in which two sockets were open: both were
\* sent a close with code 1001 and nothing is stored any more.
C26_Witness ==
  /\ room = NoRoom
  /\ persisted = NoRoom
  /\ response.status = 200
  /\ Cardinality(sessions) = 2
  /\ \A id \in sessions :
       [to |-> id, type |-> "close", code |-> 1001] \in outbox

\* C27: a state snapshot that carries the room's creator token goes to a
\* socket of a client that created the room or presented that token in a
\* request of its own, and no room of a GET /rooms body has a creatorToken.
C27_TokenDisclosure ==
  /\ \A f \in outbox :
       (/\ f.type = "state"
        /\ f.state.you # NoYou
        /\ f.state.you.creatorToken # NoToken)
         => clients.socket[f.to] \in clients.holders
  /\ \A i \in 1 .. Len(response.rooms) :
       "creatorToken" \notin DOMAIN response.rooms[i]

\* The room r is the stored room but for the connected flags, and the
\* flag of a player is set exactly for the bots and for the ids in bound.
RestoredFrom(r, stored, bound) ==
  IF stored = NoRoom THEN r = NoRoom
  ELSE /\ r # NoRoom
       /\ Len(r.players) = Len(stored.players)
       /\ \A i \in 1 .. Len(stored.players) :
            /\ r.players[i].connected =
                 (stored.players[i].isBot \/ stored.players[i].id \in bound)
            /\ [r.players[i] EXCEPT !.connected = stored.players[i].connected]
                 = stored.players[i]
       /\ [r EXCEPT !.players = stored.players] = stored

StoredIsMemory ==
  IF room = NoRoom \/ persisted = NoRoom THEN room = persisted
  ELSE /\ [room EXCEPT !.players = persisted.players] = persisted
       /\ Len(room.players) = Len(persisted.players)
       /\ \A i \in 1 .. Len(room.players) :
            /\ [room.players[i] EXCEPT !.connected = persisted.players[i].connected]
                 = persisted.players[i]
            /\ room.players[i].connected # persisted.players[i].connected =>
                 /\ ~room.players[i].isBot
                 /\ room.players[i].id \notin sessions
                 /\ persisted.players[i].connected

\* C28, as worded: when no handler and no scheduler pass is under way, the
\* stored room equals the room in memory.
C28_PersistedEqualsMemory == (pending = 0 /\ loops = <<>>) => persisted = room

\* C28, amended: every step that changes the room in memory, but a restore,
\* writes the room it leaves, and nothing else is ever written; a restore
\* yields the stored room, game, hands and score included, with the
\* connected flags computed anew; so at any time the stored room is the room
\* in memory but for the connected flag of players the restore found
\* without a socket.
C28_PersistedEveryStep ==
  /\ []StoredIsMemory
  /\ [][/\ room' # room =>
             \/ persisted' = room'
             \/ /\ persisted' = persisted
                /\ loops' = <<>>
                /\ pending' = 0
                /\ RestoredFrom(room', persisted, sessions')
        /\ persisted' # persisted => persisted' = room'
        /\ (ColdStart \/ WakeUp) => RestoredFrom(room', persisted, sessions')
       ]_vars

\* The object restarted in the middle of the play, after the first trick:
\* the game in memory is the stored one, trick won included, and nothing is
\* under way; the creator's connected flag alone differs from the stored.
C28_Witness ==
  /\ hasGame(room)
  /\ room.game.phase = "playing"
  /\ Len(room.game.completedTricks) >= 1
  /\ pending = 0
  /\ loops = <<>>
  /\ room.game = persisted.game
  /\ room # persisted

\* The handlers and scheduler passes that have written the rooms and have
\* not broadcast yet.
AwaitingWrite(handlers, passes) ==
  handlers + Cardinality({i \in 1 .. Len(passes) : passes[i].pc = "persist"})

\* What a snapshot says to everybody: the snapshot without its "you" and
\* its "legalPlays".
SharedPart(state) ==
  [field \in DOMAIN state \ {"you", "legalPlays"} |-> state[field]]

\* C29: a step that changes the room leaves no other handler or pass between
\* its write and its broadcast, so that the snapshot each of them broadcasts
\* is the state its own step produced; and the snapshots of one broadcast
\* tell every session the same state.
C29_BroadcastAtCommit ==
  /\ [](\A f, g \in outbox :
          (f.type = "state" /\ g.type = "state") =>
            SharedPart(f.state) = SharedPart(g.state))
  /\ [][room' # room => AwaitingWrite(pending', loops') <= 1]_vars

\* C31: calling queueAutoAdvance a second time, on the room, the flag and
\* the passes the first call left, changes none of them, whatever the first
\* call did; and every handler that resumes after its write makes such a
\* call: the room, the flag and the passes it leaves are an outcome of
\* queueAutoAdvance.
C31_QueueIdempotent ==
  /\ [](\A once \in queueAutoAdvance(room, autoAdvanceInFlight, loops) :
          queueAutoAdvance(once.room, once.inFlight, once.loops) = {once})
  /\ [][pending' = pending - 1 =>
          [room |-> room', inFlight |-> autoAdvanceInFlight', loops |-> loops']
            \in queueAutoAdvance(room, autoAdvanceInFlight, loops)]_vars

\* A handler has broadcast and called the scheduler while a bot is on turn
\* and the creator is connected: one pass, asleep before its first turn,
\* whether the call started it or found it.
C31_Witness ==
  /\ loops = <<[pc |-> "sleep", index |-> 0]>>
  /\ autoAdvanceInFlight
  /\ pending = 0
  /\ \E f \in outbox : f.type = "state"
  /\ getSeatPlayer(room, room.game.turnSeat) # 0
  /\ room.players[getSeatPlayer(room, room.game.turnSeat)].isBot

\* A human who is not connected is on turn in room r.
AwayOnTurn(r) ==
  /\ hasGame(r)
  /\ r.game.phase \in {"bidding-round-1", "bidding-round-2", "dealer-discard",
                       "playing"}
  /\ getSeatPlayer(r, r.game.turnSeat) # 0
  /\ ~OnTurn(r).isBot
  /\ ~OnTurn(r).connected

\* The latest card played in room r, with its player.
LastPlay(r) ==
  IF r.game.currentTrick # <<>>
  THEN r.game.currentTrick[Len(r.game.currentTrick)]
  ELSE LET trick == r.game.completedTricks[Len(r.game.completedTricks)].cards
       IN trick[Len(trick)]

\* Room r with every player a human.
WithoutBots(r) ==
  [r EXCEPT !.players = [i \in 1 .. Len(r.players) |->
                           [r.players[i] EXCEPT !.isBot = FALSE]],
            !.botCount = 0]

\* The room after the scheduler's turn for the human on turn in r: a pass in
\* the bidding, the first card of the hand gone in dealer-discard, the first
\* legal card played in the play.
FallbackTurn(r, after) ==
  LET ci == getSeatPlayer(r, r.game.turnSeat)
      hand == r.players[ci].hand
  IN IF r.game.phase \in {"bidding-round-1", "bidding-round-2"}
     THEN Passed(r, after)
     ELSE IF r.game.phase = "dealer-discard"
     THEN /\ after.players[ci].hand = Tail(hand)
          /\ after.game.phase = "playing"
          /\ after.game.trump = r.game.trump
     ELSE /\ LastPlay(after) =
               [playerId |-> r.players[ci].id,
                card |-> getLegalPlays(r, r.players[ci].id)[1]]
          /\ Len(after.players[ci].hand) = Len(hand) - 1
          /\ getLegalPlays(r, r.players[ci].id)[1] \notin Range(after.players[ci].hand)

\* C32: with a disconnected human on turn every outcome of the scheduler's
\* turn is an accepted pass (bidding), the discard of the first card of the
\* hand (dealer-discard) or the play of the first legal card (playing), and
\* the game changes in no other way while that player is on turn, so that
\* no trump is called for it; in hand-over the scheduler deals the next hand
\* when a bot is seated and does nothing when none is.
C32_FallbackTurn ==
  /\ [](/\ AwayOnTurn(room) =>
             \A o \in autoAdvanceOneTurn(room) :
               o.acted /\ ~o.err /\ FallbackTurn(room, o.room)
        /\ (hasGame(room) /\ room.game.phase = "hand-over") =>
             /\ \A o \in autoAdvanceOneTurn(room) :
                  o.acted <=> \E i \in 1 .. Len(room.players) : room.players[i].isBot
             /\ autoAdvanceOneTurn(WithoutBots(room)) = {NotActed(WithoutBots(room))})
  /\ [][(AwayOnTurn(room) /\ room'.game # room.game)
          => FallbackTurn(room, room')]_vars

\* The scheduler has played for the creator, who is away, and waits for its
\* write: the latest card of the open trick is the creator's.
C32_Witness ==
  /\ hasGame(room) /\ room.game.phase = "playing"
  /\ room.game.currentTrick # <<>>
  /\ LastPlay(room).playerId = room.creatorPlayerId
  /\ ~room.players[getPlayerById(room, room.creatorPlayerId)].connected
  /\ sessions = {}
  /\ Len(loops) = 1 /\ loops[1].pc = "persist"

\* A bot is on turn to discard or to play in room r.
BotSamples(r) ==
  /\ hasGame(r)
  /\ r.game.phase \in {"dealer-discard", "playing"}
  /\ getSeatPlayer(r, r.game.turnSeat) # 0
  /\ OnTurn(r).isBot

\* The seats other than the bot's.
OtherSeats(r, bot) ==
  {r.players[i].seatIndex : i \in {j \in 1 .. Len(r.players) : r.players[j].id # bot.id}}

\* The hands the players really hold keep to the inferred voids, so that an
\* assignment of unseen faces with these sizes and voids exists.
RealHandsFit(r, bot) ==
  \A seat \in OtherSeats(r, bot) :
    \A card \in Range(r.players[getSeatPlayer(r, seat)].hand) :
      effectiveSuit(card, r.game.trump) \notin inferVoidSuitsBySeat(r)[seat]

\* The sample deals every other seat as many cards as it holds, all
\* different, none of them in the bot's hand or played.
SizesAndFaces(r, bot, sample) ==
  LET seats == OtherSeats(r, bot)
      dealt == UNION {Range(sample.handsBySeat[seat]) : seat \in seats}
      total == Len(sample.handsBySeat[0]) + Len(sample.handsBySeat[1])
                 + Len(sample.handsBySeat[2]) + Len(sample.handsBySeat[3])
  IN /\ \A seat \in seats :
          Len(sample.handsBySeat[seat]) = Len(r.players[getSeatPlayer(r, seat)].hand)
     /\ sample.handsBySeat[bot.seatIndex] = bot.hand
     /\ Cardinality(dealt \cup Range(bot.hand)) = total
     /\ \A card \in dealt :
          cardFaceKey(card) \notin buildVisibleFaceSet(r, bot.id)

\* The sample deals no seat a card of an effective suit the seat is taken
\* to be void in.
VoidsKept(r, bot, sample) ==
  \A seat \in OtherSeats(r, bot) :
    \A card \in Range(sample.handsBySeat[seat]) :
      effectiveSuit(card, r.game.trump) \notin inferVoidSuitsBySeat(r)[seat]

EngineActions(r, bot) ==
  IF r.game.phase = "bidding-round-1"
  THEN {Message("pass")}
         \cup (IF r.game.upcard = NoCard THEN {}
               ELSE {[Message("order-up") EXCEPT !.alone = alone] :
                       alone \in BOOLEAN})
  ELSE IF r.game.phase = "bidding-round-2"
  THEN {Message("pass")}
         \cup {[Message("choose-trump") EXCEPT !.suit = suit, !.alone = alone] :
                 suit \in SUITS \ {r.game.blockedSuit}, alone \in BOOLEAN}
  ELSE IF r.game.phase = "dealer-discard"
  THEN (IF r.game.trump = NoSuit THEN {}
        ELSE {[Message("discard") EXCEPT !.cardId = card] :
                card \in Range(bot.hand)})
  ELSE IF r.game.phase = "playing"
  THEN {[Message("play-card") EXCEPT !.cardId = card] :
          card \in Range(bot.hand) \cap Range(getLegalPlays(r, bot.id))}
  ELSE IF r.game.phase = "hand-over" THEN {Message("start-next-hand")}
  ELSE {}

\* A bot is on turn in room r.
BotOnTurn(r) ==
  /\ hasGame(r)
  /\ r.game.phase \in {"bidding-round-1", "bidding-round-2", "dealer-discard",
                       "playing"}
  /\ getSeatPlayer(r, r.game.turnSeat) # 0
  /\ OnTurn(r).isBot

\* C34: for a bot on turn, the engine returns an action (pass or order-up
\* in round 1, pass or choose-trump of a suit other than the blocked one in
\* round 2, the discard of a card of the dealer's hand, the play of a legal
\* card), every action it can return is accepted by the handler it is
\* executed with, and so the scheduler's turn for the bot acts without an
\* error.
C34_BotActionsAccepted ==
  BotOnTurn(room) =>
    LET bot == OnTurn(room) IN
    /\ chooseBotAction(room, bot) # {}
    /\ chooseBotAction(room, bot) \subseteq EngineActions(room, bot)
    /\ \A action \in EngineActions(room, bot), k \in Deals :
         ~executeBotAction(afterChooseBotAction(room), bot, action, k).err
    /\ \A o \in autoAdvanceOneTurn(room) : o.acted /\ ~o.err

\* The bot that dealt sits out, its partner having ordered up alone, and
\* has discarded: five cards in its hand and the play about to open.
C34_Witness ==
  /\ hasGame(room) /\ room.game.phase = "playing"
  /\ room.game.sittingOutSeat = room.game.dealerSeat
  /\ room.players[getSeatPlayer(room, room.game.dealerSeat)].isBot
  /\ Len(room.players[getSeatPlayer(room, room.game.dealerSeat)].hand) = HAND_SIZE
  /\ room.game.currentTrick = <<>> /\ room.game.completedTricks = <<>>
  /\ Len(loops) = 1 /\ loops[1].pc = "persist"

\* C35: one deal follows a finished hand.  In hand-over the only change of
\* the game, by a client's start-next-hand or by the scheduler's pass that
\* waited out the pause, is one deal: handNumber one higher, the dealer one
\* seat further, round 1 of the bidding.  Once the hand is dealt a
\* start-next-hand is rejected and leaves the room as it is, and the
\* scheduler's turn deals nothing for the finished hand: outside hand-over
\* handNumber changes only by the redeal of a round 2 passed out or by a
\* restart of a finished match.
C35_OneDealPerHand ==
  /\ [](hasGame(room) /\ room.game.phase # "hand-over" =>
          /\ \A k \in Deals, id \in PlayerIds :
               LET late == handleAction(room, id, Message("start-next-hand"), k, 0)
               IN late.err /\ late.room = room
          /\ \A o \in autoAdvanceOneTurn(room) :
               o.room.game.handNumber # room.game.handNumber =>
                 room.game.phase = "bidding-round-2")
  /\ [][hasGame(room) /\ room.game.phase = "hand-over" /\ room'.game # room.game =>
          /\ room'.game.phase = "bidding-round-1"
          /\ room'.game.handNumber = room.game.handNumber + 1
          /\ room'.game.dealerSeat = nextSeat(room.game.dealerSeat)]_vars
  /\ [][hasGame(room) /\ room.game.phase # "hand-over"
          /\ room'.game.handNumber # room.game.handNumber =>
          room.game.phase \in {"bidding-round-2", "game-over"}]_vars

\* A client dealt the next hand while the scheduler's pass was asleep in
\* the pause after the hand: the pass still sleeps, the client's handler
\* waits for its write.
C35_Witness ==
  /\ hasGame(room) /\ room.game.phase = "bidding-round-1"
  /\ room.game.handNumber = MaxHandNumber
  /\ room.game.dealerSeat = 2
  /\ room.score # ScoresInPlay[ROOM_SIZE]
  /\ pending = 1
  /\ Len(loops) = 1 /\ loops[1].pc = "sleep"

\* C36: in an existing room a player that is not a bot is connected exactly
\* when a session is bound to its id, and a bot is connected and has no
\* session; a request for a seat is never accepted for a player that has a
\* session, so that no player has two.
C36_SessionConsistency ==
  /\ room # NoRoom =>
       \A i \in 1 .. Len(room.players) :
         LET player == room.players[i] IN
         IF player.isBot THEN player.connected /\ player.id \notin sessions
         ELSE player.connected <=> player.id \in sessions
  /\ room # NoRoom =>
       \A request \in ConnectRequests :
         LET res == connectToRoom(room, sessions, request) IN
         res.status = 101 =>
           /\ res.playerId \notin sessions
           /\ res.sessions = sessions \cup {res.playerId}

\* The creator lost its socket and was given its seat back by a later
\* request, in the middle of a hand: it is connected and has one session.
C36_Witness ==
  /\ room # NoRoom /\ hasGame(room)
  /\ room.game.completedTricks # <<>>
  /\ clients.socket[room.creatorPlayerId] # NoClient
  /\ sessions = {room.creatorPlayerId}
  /\ room.players[getPlayerById(room, room.creatorPlayerId)].connected

\* The roster of a room: the id, the seat and the isBot flag of each player,
\* in the order of room.players.
Roster(r) ==
  [i \in 1 .. Len(r.players) |->
     [id |-> r.players[i].id, seatIndex |-> r.players[i].seatIndex,
      isBot |-> r.players[i].isBot]]

\* The requests for a seat in room r whose password is right: under the
\* names of humans and bots in either case and under a name nobody has, with
\* create = 1 or not, with the room's creator token or none.
SeatRequests(r) ==
  {Request(name, r.password, create, creatorToken) :
     name \in {"P1", "p1", "P2", "Atlas Bot", "atlas bot", "P5"},
     create \in BOOLEAN,
     creatorToken \in {NoToken, r.creatorToken}}

\* C37: a room waits exactly when it has no game; botCount is the number of
\* bots; a room that has a game has four players on the seats 0 to 3.  A
\* room that has a game keeps it and its roster in every step that leaves
\* the room in place, and in every state no lobby command of any player and
\* no request for a seat changes the roster of a room that has a game.
C37_RosterFrozen ==
  /\ [](room # NoRoom =>
          /\ room.status = "waiting" <=> ~hasGame(room)
          /\ room.status \in {"waiting", "playing"}
          /\ room.botCount =
               Cardinality({i \in 1 .. Len(room.players) : room.players[i].isBot})
          /\ hasGame(room) =>
               /\ Len(room.players) = ROOM_SIZE
               /\ \A seat \in Seats :
                    Cardinality({i \in 1 .. ROOM_SIZE :
                                   room.players[i].seatIndex = seat}) = 1
               /\ \A playerId \in PlayerIds, message \in LobbyMessages :
                    LET res == handleAction(room, playerId, message, 1, 0)
                    IN Roster(res.room) = Roster(room) /\ hasGame(res.room)
               /\ \A request \in SeatRequests(room) :
                    LET res == connectToRoom(room, sessions, request)
                    IN /\ Roster(res.room) = Roster(room)
                       /\ hasGame(res.room)
                       /\ res.room.status = "playing")
  /\ [][(room # NoRoom /\ hasGame(room) /\ room' # NoRoom) =>
          /\ hasGame(room')
          /\ room'.status = "playing"
          /\ Roster(room') = Roster(room)
          /\ room'.botCount = room.botCount]_vars

\* The second player to join was moved to the last seat and a bot removed
\* and added again before the start; the game is on, the creator's set-seat
\* is refused and the second player, gone meanwhile, is back.
C37_Witness ==
  /\ hasGame(room)
  /\ Len(room.players) = ROOM_SIZE
  /\ \E i \in 1 .. ROOM_SIZE :
       /\ ~room.players[i].isBot
       /\ room.players[i].id # room.creatorPlayerId
       /\ room.players[i].seatIndex = ROOM_SIZE - 1
       /\ room.players[i].connected
       /\ i < ROOM_SIZE
  /\ handleSetSeat(room, room.creatorPlayerId, room.creatorPlayerId, 1).err
  /\ sessions = Humans(room)
  /\ pending = 1

\* C38: once the room is removed a pass that waited in its delay has no
\* visible effect.  No step puts a room back under the name, in memory or
\* in storage, except a client's request that creates one, and a room
\* created afterwards is left as its creation made it; while the name has
\* no room no info and no state is sent; and the sessions of a room created
\* afterwards, which has no game yet, get no info, an info being sent only
\* for what happens in a game.
C38_RemovedRoomSilent ==
  /\ [](room = NoRoom => \A f \in outbox : f.type \notin {"info", "state"})
  /\ []((room # NoRoom /\ ~hasGame(room)) => \A f \in outbox : f.type # "info")
  /\ [][(room = NoRoom /\ response'.status # 101) =>
          (room' = NoRoom /\ persisted' = NoRoom)]_vars
  /\ [][((\E i \in 1 .. Len(loops) : isDetached(loops[i]))
            /\ room # NoRoom /\ room' # NoRoom) =>
          (room' = room /\ persisted' = room)]_vars

\* C39: with a bot on turn to bid, every bid estimate returns with the room
\* exactly as it was (trump, turn, tricks, trick index, phase, hands and
\* all the rest), so does the whole choice of the bid, and every outcome of
\* the bot's turn is what the pass, order-up or choose-trump the engine can
\* return does to the room as it was before the estimates.
C39_BidEvaluationRestores ==
  BotToBid(room) =>
    /\ estimatedSuits(room) # <<>>
    /\ \A i \in 1 .. Len(estimatedSuits(room)) :
         estimateBidScoreViaMinimax(room, estimatedSuits(room)[i]) = room
    /\ afterChooseBotAction(room) = room
    /\ \A o \in autoAdvanceOneTurn(room) :
         \E action \in EngineActions(room, OnTurn(room)), k \in Deals :
           o.room = handleAction(room, OnTurn(room).id, action, k, 0).room

\* A bot has called trump in round 2, after the estimates of the three
\* suits left: the turn that did it waits for its write.
C39_Witness ==
  /\ hasGame(room)
  /\ room.game.blockedSuit # NoSuit
  /\ room.game.trump # NoSuit
  /\ room.game.calledByPlayerId # NoPlayer
  /\ room.players[getPlayerById(room, room.game.calledByPlayerId)].isBot
  /\ room.game.completedTricks = <<>> /\ room.game.currentTrick = <<>>
  /\ Len(loops) = 1 /\ loops[1].pc = "persist"

\* C40: no two players of a room, humans or bots, have names that are equal
\* when case is ignored, so that the name of a request for a seat matches
\* at most one player.
C40_NamesDistinct ==
  room # NoRoom =>
    /\ \A i, j \in 1 .. Len(room.players) :
         i # j => toLowerCase(room.players[i].name)
                    # toLowerCase(room.players[j].name)
    /\ \A request \in ConnectRequests :
         Cardinality({i \in 1 .. Len(room.players) :
                        toLowerCase(room.players[i].name)
                          = toLowerCase(request.name)}) <= 1
====
